---- MODULE Spec2Model ----
(***************************************************************************)
(* Proposal pipeline of the sales-proposal bot: the location registry      *)
(* lookup (config.py), the orchestrator process_proposals and              *)
(* process_combined_package (proposals.py), slide trimming and merging     *)
(* (pdf_utils.py), the proposal log (db.py) and the result handling of     *)
(* main_llm_loop (llm.py).                                                 *)
(*                                                                         *)
(* Strings are sequences of one-character strings, so that lower(),        *)
(* strip() and the substring operator `in` are computed, not assumed.      *)
(* A slide (and the page it is converted to) is a record                   *)
(* [kind, key, no]: slide `no` of the template of location `key`, or the   *)
(* financial slide rendered for proposal `no`.                             *)
(***************************************************************************)
EXTENDS Integers, Sequences, FiniteSets, TLC

\* ------------------------------------------------------------------ bounds
MaxProposals == 3
MaxOptions == 2
MaxRateProposals == 2
MaxSlides == 6
MaxFiles == 2
MaxRefreshes == 2
MaxJobs == 3
MaxPaths == 2
MaxScale == 4
MaxCalls == 12
MaxTemplates == 2
MaxItems == 1
MaxCycles == 14

\* ----------------------------------------------------------------- strings
None == <<>>

LowerChar(c) ==
    CASE c = "A" -> "a"
      [] c = "Q" -> "q"
      [] c = "T" -> "t"
      [] OTHER -> c

Lower(s) == [i \in 1..Len(s) |-> LowerChar(s[i])]

Strip(s) ==
    LET solid == {i \in 1..Len(s) : s[i] # " "}
        lo == CHOOSE i \in solid : \A j \in solid : i <= j
        hi == CHOOSE i \in solid : \A j \in solid : j <= i
    IN  IF solid = {} THEN <<>> ELSE SubSeq(s, lo, hi)

\* Python's `a in b` on strings
IsSubstr(a, b) ==
    \E i \in 0..(Len(b) - Len(a)) : SubSeq(b, i + 1, i + Len(a)) = a

\* ----------------------------------------------------------------- amounts
\* Python's s.replace(pat, ""): the occurrences are removed left to right
RECURSIVE RemoveAll(_, _)
RemoveAll(s, pat) ==
    IF Len(s) < Len(pat) THEN s
    ELSE IF SubSeq(s, 1, Len(pat)) = pat
         THEN RemoveAll(SubSeq(s, Len(pat) + 1, Len(s)), pat)
         ELSE <<Head(s)>> \o RemoveAll(Tail(s), pat)

DigitChars == <<"0", "1", "2", "3", "4", "5", "6", "7", "8", "9">>

IsDigit(c) == \E d \in 1..10 : DigitChars[d] = c

DigitVal(c) == (CHOOSE d \in 1..10 : DigitChars[d] = c) - 1

RECURSIVE NatOf(_)
NatOf(s) == IF s = <<>> THEN 0 ELSE 10 * NatOf(SubSeq(s, 1, Len(s) - 1)) + DigitVal(s[Len(s)])

\* float(net_rate_str.replace("AED", "").replace(",", "").strip()) on the
\* strings of this model (digits, separators, letters; no sign, decimal point
\* or exponent): the number, or ValueError
ParseRate(net_rate_str) ==
    LET text == Strip(RemoveAll(RemoveAll(net_rate_str, <<"A", "E", "D">>), <<",">>))
    IN  IF text # <<>> /\ \A i \in 1..Len(text) : IsDigit(text[i])
        THEN [ok |-> TRUE, value |-> NatOf(text)]
        ELSE [ok |-> FALSE, value |-> 0]

\* round(num / den) as the format spec ".0f" rounds a float: to the nearest
\* integer, a tie going to the even one
RoundHalfEven(num, den) ==
    LET q == num \div den
        r == num % den
    IN  IF 2 * r < den THEN q
        ELSE IF 2 * r > den THEN q + 1
        ELSE IF q % 2 = 0 THEN q ELSE q + 1

RECURSIVE Grouped(_)
Grouped(v) ==
    IF v < 1000 THEN IF v < 10 THEN <<DigitChars[v + 1]>>
                     ELSE Grouped(v \div 10) \o <<DigitChars[(v % 10) + 1]>>
    ELSE Grouped(v \div 1000) \o <<",", DigitChars[((v \div 100) % 10) + 1],
                                     DigitChars[((v \div 10) % 10) + 1],
                                     DigitChars[(v % 10) + 1]>>

\* f"AED {v:,.0f}"
FormatAED(v) == <<"A", "E", "D", " ">> \o Grouped(v)

municipality_fee == 520

\* UPLOAD_FEES_MAPPING.get(key, 3000), for a template whose sidecar names no fee
default_upload_fee == 3000

\* mutant of VatOf: the VAT is cut to a whole unit, not rounded
VatOf_Truncated(subtotal) == subtotal \div 20

\* vat = subtotal * 0.05 and total = subtotal + vat, as they are printed
VatOf(subtotal) == RoundHalfEven(subtotal, 20)

TotalOf(subtotal) == RoundHalfEven(21 * subtotal, 20)

\* one entry of vat_amounts and total_amounts per net rate; a rate that does
\* not parse raises ValueError out of the whole call
_calc_vat_and_total_for_rates(net_rates, upload_fee) ==
    LET sub(i) == ParseRate(net_rates[i]).value + upload_fee + municipality_fee
    IN  IF \E i \in 1..Len(net_rates) : ~ParseRate(net_rates[i]).ok
        THEN [raised |-> TRUE, vat_amounts |-> <<>>, total_amounts |-> <<>>]
        ELSE [raised |-> FALSE,
              vat_amounts |-> [i \in 1..Len(net_rates) |-> FormatAED(VatOf(sub(i)))],
              total_amounts |-> [i \in 1..Len(net_rates) |-> FormatAED(TotalOf(sub(i)))]]

\* the VAT and the total of the combined slide
CombinedTotals(combined_rate, total_upload_fees) ==
    LET rate == ParseRate(combined_rate)
        subtotal == rate.value + total_upload_fees + municipality_fee
    IN  IF ~rate.ok THEN [raised |-> TRUE, vat |-> <<>>, total |-> <<>>]
        ELSE [raised |-> FALSE, vat |-> FormatAED(VatOf(subtotal)),
              total |-> FormatAED(TotalOf(subtotal))]

\* ---------------------------------------------------------------- registry
\* One entry per discovered template, in discovery order.  display_name and
\* display_type hold what meta.get('display_name', '') and
\* meta.get('display_type', 'Digital') return: a template without a
\* metadata sidecar has meta = {} and so the defaults '' and 'Digital'.
KeyA == <<"a", "b">>
KeyB == <<"x", "y">>

Entry(k, dn, dt, n, ex) ==
    [key |-> k, display_name |-> dn, display_type |-> dt, slides |-> n, exists |-> ex]

EntryA_Static == Entry(KeyA, <<"T", " ", "a", "b">>, "Static", 2, TRUE)
EntryA_Bare == Entry(KeyA, <<>>, "Digital", 3, TRUE)
EntryA_One == Entry(KeyA, <<"T", " ", "a", "b">>, "Static", 1, TRUE)
EntryB_Digital == Entry(KeyB, <<"x", "y", " ", "T">>, "Digital", 3, TRUE)
EntryB_Gone == Entry(KeyB, <<"x", "y", " ", "T">>, "Digital", 3, FALSE)

Registries ==
    { <<EntryA_Static, EntryB_Digital>>,
      <<EntryB_Digital, EntryA_Bare>>,
      <<EntryA_One, EntryB_Gone>> }

\* key of the first entry of reg, in iteration order, among the hits
FirstKey(reg, hits) ==
    IF hits = {} THEN None
    ELSE reg[CHOOSE i \in hits : \A j \in hits : i <= j].key

EntryOf(reg, k) == reg[CHOOSE i \in 1..Len(reg) : reg[i].key = k]

get_location_key_from_display_name(reg, display_name) ==
    LET display_name_lower == Strip(Lower(display_name))
        exact == {i \in 1..Len(reg) : Lower(reg[i].display_name) = display_name_lower}
        partial == {i \in 1..Len(reg) :
                       \/ IsSubstr(display_name_lower, Lower(reg[i].display_name))
                       \/ IsSubstr(Lower(reg[i].display_name), display_name_lower)}
        iskey == {i \in 1..Len(reg) : reg[i].key = display_name_lower}
    IN  IF exact # {} THEN FirstKey(reg, exact)
        ELSE IF partial # {} THEN FirstKey(reg, partial)
        ELSE FirstKey(reg, iskey)

\* lookup as process_single_proposal and process_combined_package do it:
\* the registry lookup, then the older substring match on the keys
MatchKey(reg, location) ==
    LET old == {i \in 1..Len(reg) :
                   IsSubstr(reg[i].key, location) \/ IsSubstr(location, reg[i].key)}
    IN  IF get_location_key_from_display_name(reg, location) # None
        THEN get_location_key_from_display_name(reg, location)
        ELSE FirstKey(reg, old)

NormLocation(p) == Strip(Lower(p.location))

\* ------------------------------------------------------------------ slides
TemplateDeck(e) == [i \in 1..e.slides |-> [kind |-> "tpl", key |-> e.key, no |-> i]]

FinancialSlide(idx, k) == [kind |-> "fin", key |-> k, no |-> idx]

CombinedSlide == [kind |-> "fin", key |-> None, no |-> 0]

\* xml_slides.insert(pos, x), pos counted from 0
InsertAt(deck, pos, x) ==
    SubSeq(deck, 1, pos) \o <<x>> \o SubSeq(deck, pos + 1, Len(deck))

MaxOf(a, b) == IF a >= b THEN a ELSE b

\* mutant of create_proposal_with_template: the new slide stays where it is added
create_proposal_with_template_Appended(deck, fin) == Append(deck, fin)

\* the new slide is appended, then moved to position max(len - 1, 0) of the
\* original deck when the grown deck has more than one slide
create_proposal_with_template(deck, fin) ==
    LET insert_position == MaxOf(Len(deck) - 1, 0)
        grown == Append(deck, fin)
    IN  IF Len(grown) > 1 /\ insert_position < Len(grown) - 1
        THEN InsertAt(deck, insert_position, fin)
        ELSE grown

create_combined_proposal_with_template(deck, fin) ==
    InsertAt(deck, MaxOf(Len(deck) - 1, 0), fin)

\* the slide surgery of remove_slides_and_convert_to_pdf
RemoveSlides(deck, remove_first, remove_last) ==
    LET dropFirst == remove_first /\ Len(deck) > 0
        dropLast == remove_last /\ Len(deck) > 1
    IN  SubSeq(deck, IF dropFirst THEN 2 ELSE 1,
                     IF dropLast THEN Len(deck) - 1 ELSE Len(deck))

\* the external renderer yields one page per slide, in slide order
convert_pptx_to_pdf(deck) == [i \in 1..Len(deck) |-> deck[i]]

RECURSIVE merge_pdfs(_)
merge_pdfs(pdf_files) ==
    IF pdf_files = <<>> THEN <<>>
    ELSE Head(pdf_files) \o merge_pdfs(Tail(pdf_files))

IntroDeck(deck) == SubSeq(deck, 1, IF Len(deck) > 0 THEN 1 ELSE 0)

OutroDeck(deck) == SubSeq(deck, Len(deck), Len(deck))

\* the legacy rule, by position alone: the first deck keeps its first slide,
\* the last deck keeps its last slide
PositionalFlags(i, n) ==
    IF i = 1 THEN <<FALSE, TRUE>>
    ELSE IF i < n THEN <<TRUE, TRUE>>
    ELSE <<TRUE, FALSE>>

\* mutant of TrimFlags: the intro/outro template is not consulted
TrimFlags_Positional(i, n, template) == PositionalFlags(i, n)

\* (remove_first, remove_last) for the proposal at position i (from 1) of n
TrimFlags(i, n, template) ==
    IF template # None THEN <<TRUE, TRUE>>
    ELSE PositionalFlags(i, n)

\* the template whose first and last slide become the intro and the outro:
\* the first proposal that resolves to a Digital location, else the first
\* proposal if it resolves at all
RECURSIVE FirstDigital(_, _)
FirstDigital(reg, locs) ==
    IF locs = <<>> THEN None
    ELSE LET k == MatchKey(reg, Strip(Lower(Head(locs))))
         IN  IF k # None /\ EntryOf(reg, k).display_type = "Digital" THEN k
             ELSE FirstDigital(reg, Tail(locs))

_get_digital_location_template(reg, locs) ==
    LET digital == FirstDigital(reg, locs)
    IN  IF digital # None THEN digital
        ELSE IF locs # <<>> THEN MatchKey(reg, Strip(Lower(Head(locs))))
        ELSE None

\* ----------------------------------------------------------------- results
Err(msg, loc, pos, k, nd, nr) ==
    [msg |-> msg, loc |-> loc, pos |-> pos, key |-> k, nd |-> nd, nr |-> nr]

NoErr == Err("", None, 0, None, 0, 0)

\* f"Unknown location '{location}' in proposal {idx + 1}"
UnknownLocation(location, pos) == Err("Unknown location", location, pos, None, 0, 0)

\* f"Mismatched durations and rates for {matched_key} - {nd} durations but {nr} rates"
Mismatched(k, nd, nr) == Err("Mismatched durations and rates", None, 0, k, nd, nr)

NoDuration(k) == Err("No duration specified", None, 0, k, 0, 0)

NotFound(k) == Err("not found", None, 0, k, 0, 0)

ErrorProcessing(pos) == Err("Error processing proposal", None, pos, None, 0, 0)

\* mutant of ValidationError: the duration/rate count comparison is missing
ValidationError_NoCountCheck(reg, p, pos) ==
    LET location == NormLocation(p)
        matched_key == MatchKey(reg, location)
    IN  IF matched_key = None THEN UnknownLocation(location, pos)
        ELSE IF p.nd = 0 THEN NoDuration(matched_key)
        ELSE IF ~EntryOf(reg, matched_key).exists THEN NotFound(matched_key)
        ELSE NoErr

\* the early returns of process_single_proposal, in the order of the code;
\* NoErr when the proposal reaches the render
ValidationError(reg, p, pos) ==
    LET location == NormLocation(p)
        matched_key == MatchKey(reg, location)
    IN  IF matched_key = None THEN UnknownLocation(location, pos)
        ELSE IF p.nd # p.nr THEN Mismatched(matched_key, p.nd, p.nr)
        ELSE IF p.nd = 0 THEN NoDuration(matched_key)
        ELSE IF ~EntryOf(reg, matched_key).exists THEN NotFound(matched_key)
        ELSE NoErr

\* ------------------------------------------------------------------ inputs
\* a proposal has nd durations and nr net rates; every one of its net rates
\* is the string net_rate
GoodRate == <<"A", "E", "D", " ", "9", ",", "0", "0", "0">>

BadRate == <<"A", "E", "D", " ", "9", "k">>

Proposal(location, nd, nr, net_rate) ==
    [location |-> location, nd |-> nd, nr |-> nr, net_rate |-> net_rate]

ProposalInputs ==
    { Proposal(<<" ", "A", "b">>, MaxOptions, MaxOptions, GoodRate),
      Proposal(<<"x", "y">>, 1, 1, GoodRate),
      Proposal(<<"Q", " ">>, 1, 1, GoodRate),
      Proposal(<<"a", "b">>, MaxOptions, 1, GoodRate),
      Proposal(<<"x", "y">>, 0, 0, GoodRate) }

Batches == UNION {[1..n -> ProposalInputs] : n \in 0..MaxProposals}

\* requests whose net rates do not all parse
MalformedInputs ==
    { Proposal(<<" ", "A", "b">>, 1, 1, BadRate),
      Proposal(<<"x", "y">>, MaxOptions, MaxOptions, BadRate) }

RateBatches ==
    UNION {[1..n -> ProposalInputs \cup MalformedInputs] : n \in 0..MaxRateProposals}

net_rates(p) == [o \in 1..p.nr |-> p.net_rate]

\* the render of the financial slide raises when a net rate does not parse
RatesRaise(p) == _calc_vat_and_total_for_rates(net_rates(p), default_upload_fee).raised

\* ------------------------------------------------------------------- state
\* A request reaches process_proposals through main_llm_loop; requests that
\* main_llm_loop refuses are also given to process_proposals directly, as a
\* caller other than main_llm_loop would.
VARIABLES
    registry,              \* config.LOCATION_METADATA / the key -> file mapping
    caller,                \* "llm": main_llm_loop calls; "direct": process_proposals is called
    package_type,          \* "separate" | "combined"
    proposals_data,        \* the batch, in request order
    combined_net_rate,     \* the rate string given, or None
    pc,                    \* where the request is
    tasks,                 \* the process_single_proposal coroutines handed to gather
    completed,             \* positions of the finished coroutines, in the order they finished
    intro_outro_template,  \* key of the intro/outro template, or None
    pdf_files,             \* the list merged at the end, each file its pages
    conversions,           \* every conversion started: what was converted and how it was trimmed
    files,                 \* temporary files present on disk
    result,                \* what process_proposals returned (or that it raised)
    log,                   \* rows of proposals_log
    slack,                 \* what main_llm_loop sent to the channel
    call,                  \* a function called on its own: its name and arguments
    ret,                   \* what that call returned
    templates_dir,         \* the template files, in the order rglob yields them
    LOCATION_METADATA,     \* config.LOCATION_METADATA, in insertion order
    UPLOAD_FEES_MAPPING,   \* config.UPLOAD_FEES_MAPPING, in insertion order
    _MAPPING_CACHE,        \* config._MAPPING_CACHE
    _DISPLAY_CACHE,        \* config._DISPLAY_CACHE
    refresh,               \* the call of refresh_templates in progress, and its locals
    refreshed,             \* the registry as each completed refresh_templates left it
    observed,              \* what a render on a worker thread read from config
    _CONVERT_SEMAPHORE,    \* the free slots of pdf_utils._CONVERT_SEMAPHORE
    conversion_jobs,       \* the conversions requested by the batches in progress
    loop_running,          \* the job whose synchronous code holds the event loop, or 0
    user_history,          \* llm.user_history: the stored list of each user
    llm_call,              \* the call of main_llm_loop in progress, and its local history
    loop_calls,            \* how many times main_llm_loop was called
    temp_location_uploads, \* llm.temp_location_uploads: the add-location sessions
    templates_written,     \* what _persist_location_upload wrote, in order
    clock,                 \* the time, in seconds
    temp_dir,              \* the files of tempfile.gettempdir(), with their mtime
    cleanup_errors,        \* how many cycles of periodic_cleanup ended in its except clause
    cleanup_at,            \* where periodic_cleanup is: in its sleep or before its try block
    last_used              \* when each history got its last message, each session its timestamp

vars == <<registry, caller, package_type, proposals_data, combined_net_rate, pc, tasks,
          completed, intro_outro_template, pdf_files, conversions, files, result, log, slack,
          call, ret, templates_dir, LOCATION_METADATA, UPLOAD_FEES_MAPPING, _MAPPING_CACHE,
          _DISPLAY_CACHE, refresh, refreshed, observed,
          _CONVERT_SEMAPHORE, conversion_jobs, loop_running,
          user_history, llm_call, loop_calls,
          temp_location_uploads, templates_written, clock, temp_dir, cleanup_errors,
          cleanup_at, last_used>>

registryVars == <<templates_dir, LOCATION_METADATA, UPLOAD_FEES_MAPPING, _MAPPING_CACHE,
                  _DISPLAY_CACHE, refresh, refreshed, observed>>

\* the state shared by the requests in progress
gateVars == <<_CONVERT_SEMAPHORE, conversion_jobs, loop_running>>

chatVars == <<user_history, llm_call, loop_calls>>

uploadVars == <<temp_location_uploads, templates_written>>

cleanupVars == <<clock, temp_dir, cleanup_errors, cleanup_at, last_used>>

shared == <<registryVars, gateVars, chatVars, uploadVars, cleanupVars>>

\* the state outside the proposal pipeline
aside == <<call, ret, shared>>

NoCall == [fn |-> "none"]

\* a cache that was never filled
Unset == [none |-> TRUE]

Cached(value) == [none |-> FALSE, value |-> value]

NotRefreshing == [pc |-> "idle", pos |-> 0, key_to_relpath |-> <<>>, display_names |-> <<>>]

NotObserved == [read |-> FALSE]

\* config as the import leaves it, over the directory dir
RegistryStart(dir) ==
    /\ templates_dir = dir
    /\ LOCATION_METADATA = <<>>
    /\ UPLOAD_FEES_MAPPING = <<>>
    /\ _MAPPING_CACHE = Unset
    /\ _DISPLAY_CACHE = Unset
    /\ refresh = NotRefreshing
    /\ refreshed = <<>>
    /\ observed = NotObserved

\* int(os.getenv("PDF_CONVERT_CONCURRENCY", "2"))
PDF_CONVERT_CONCURRENCY == 2

\* the gate as the import leaves it, with the conversions jobs to come
GateStart(jobs) ==
    /\ _CONVERT_SEMAPHORE = PDF_CONVERT_CONCURRENCY
    /\ conversion_jobs = jobs
    /\ loop_running = 0

Users == {"U1", "U2"}

\* user_history holds no list for the user
NoHistory == [stored |-> FALSE, msgs |-> <<>>]

NoLoop == [user |-> "none", history |-> <<>>]

\* llm.py as the import leaves it
ChatStart ==
    /\ user_history = [u \in Users |-> NoHistory]
    /\ llm_call = NoLoop
    /\ loop_calls = 0

LocationKeys == {<<"t", "a", "_", "b">>, <<"x", "y">>}

SessionKeys == Users \X LocationKeys

NoSession == [open |-> FALSE]

\* no add-location session, nothing written to the templates directory
UploadStart ==
    /\ temp_location_uploads = [k \in SessionKeys |-> NoSession]
    /\ templates_written = <<>>

Admins == {"U1"}

\* the histories and the add-location sessions that can exist
Items ==
    [kind : {"history"}, user : Users, location_key : {<<>>}]
        \cup [kind : {"session"}, user : Admins, location_key : LocationKeys]

Never == 0 - 1

\* the cleanup task before its first cycle, over the temporary files tmp
CleanupStart(tmp) ==
    /\ clock = 0
    /\ temp_dir = tmp
    /\ cleanup_errors = 0
    /\ cleanup_at = "sleep"
    /\ last_used = [i \in Items |-> Never]

SharedIdle ==
    RegistryStart(<<>>) /\ GateStart(<<>>) /\ ChatStart /\ UploadStart /\ CleanupStart({})

AsideIdle == call = NoCall /\ ret = NoCall /\ SharedIdle

\* the call in progress returns out
Returns(out) == [fn |-> call.fn, out |-> out]

request == <<registry, caller, package_type, proposals_data, combined_net_rate>>

N == Len(proposals_data)

\* mutant of is_single: the whole-deck path is never taken by a separate batch
is_single_CombinedOnly == N = 1 /\ package_type = "combined"

is_single == N = 1 /\ package_type # "combined"

File(f, i) == [f |-> f, i |-> i]

Conversion(what, idx, flags) ==
    [what |-> what, idx |-> idx, remove_first |-> flags[1], remove_last |-> flags[2]]

NewTask == [st |-> "new", kind |-> "", error |-> NoErr, key |-> None, pptx |-> <<>>, pdf |-> <<>>]

NoResult ==
    [success |-> FALSE, raised |-> FALSE, keys |-> {}, is_single |-> FALSE,
     is_combined |-> FALSE, error |-> NoErr, pptx |-> <<>>, pdf |-> <<>>, decks |-> <<>>]

Failure(err) == [NoResult EXCEPT !.keys = {"success", "error"}, !.error = err]

\* an exception leaves process_proposals instead of a result; `what` names
\* the call that raised it
Raised(what) ==
    [NoResult EXCEPT !.raised = TRUE, !.error = Err(what, None, 0, None, 0, 0)]

\* the requests main_llm_loop answers itself, without calling process_proposals
LLMRefuses ==
    \/ proposals_data = <<>>
    \/ package_type = "combined" /\ (combined_net_rate = None \/ N < 2)

AfterReturn == IF caller = "llm" THEN "handle" ELSE "done"

Post(text, err) == [op |-> "chat_postMessage", text |-> text, error |-> err, pages |-> <<>>]

Upload(text, pages) == [op |-> "files_upload_v2", text |-> text, error |-> NoErr, pages |-> pages]

Start(batches, rates) ==
    /\ registry \in Registries
    /\ proposals_data \in batches
    /\ package_type \in {"separate", "combined"}
    /\ combined_net_rate \in rates
    /\ (package_type = "separate" => combined_net_rate = None)
    /\ caller \in {"llm", "direct"}
    /\ (caller = "direct" => LLMRefuses)
    /\ pc = IF caller = "llm" THEN "llm" ELSE "pp"
    /\ tasks = <<>>
    /\ completed = <<>>
    /\ intro_outro_template = None
    /\ pdf_files = <<>>
    /\ conversions = {}
    /\ files = {}
    /\ result = NoResult
    /\ log = <<>>
    /\ slack = <<>>
    /\ AsideIdle

Init == Start(Batches, {None, GoodRate})

\* the same program, started on requests that hold malformed net rates
InitRates == Start(RateBatches, {None, GoodRate, BadRate})

\* the pipeline at rest, while a function is called on its own
PipelineAtRest ==
    /\ proposals_data = <<>>
    /\ package_type = "separate"
    /\ combined_net_rate = None
    /\ caller = "direct"
    /\ pc = "done"
    /\ tasks = <<>>
    /\ completed = <<>>
    /\ intro_outro_template = None
    /\ pdf_files = <<>>
    /\ conversions = {}
    /\ files = {}
    /\ result = NoResult
    /\ log = <<>>
    /\ slack = <<>>

PipelineIdle == registry = <<EntryA_Static, EntryB_Digital>> /\ PipelineAtRest

pipeline == <<request, pc, tasks, completed, intro_outro_template, pdf_files, conversions,
              files, result, log, slack>>

\* --------------------------------------------- the figures, called on their own
\* net rates around the rounding cases of the VAT: the subtotal modulo 20 is
\* the net rate modulo 20, the fees being multiples of 20
RateValues == {0, 1, 9, 10, 11, 30, 1010, 1250000}

RateStrings == {FormatAED(n) : n \in RateValues} \cup {BadRate}

Fees == {0, default_upload_fee}

CalcCalls ==
    { [fn |-> "_calc_vat_and_total_for_rates", net_rates |-> rs, upload_fee |-> f] :
          rs \in UNION {[1..n -> RateStrings] : n \in 1..MaxOptions}, f \in Fees }
    \cup
    { [fn |-> "create_combined_financial_proposal_slide", net_rates |-> <<rate>>,
       upload_fee |-> f] : rate \in RateStrings, f \in Fees }

InitCalc ==
    /\ PipelineIdle
    /\ call \in CalcCalls
    /\ ret = NoCall
    /\ SharedIdle

CalcReturn ==
    /\ call.fn = "_calc_vat_and_total_for_rates"
    /\ ret = NoCall
    /\ ret' = Returns(_calc_vat_and_total_for_rates(call.net_rates, call.upload_fee))
    /\ UNCHANGED <<pipeline, call, shared>>

CombinedTotalsReturn ==
    /\ call.fn = "create_combined_financial_proposal_slide"
    /\ ret = NoCall
    /\ ret' = Returns(CombinedTotals(call.net_rates[1], call.upload_fee))
    /\ UNCHANGED <<pipeline, call, shared>>

NextCalc == CalcReturn \/ CombinedTotalsReturn

SpecCalc == InitCalc /\ [][NextCalc]_vars

\* ------------------------------------- the deck builders, called on their own
DeckCalls ==
    { [fn |-> f, deck |-> TemplateDeck(Entry(k, None, "Digital", n, TRUE)),
       fin |-> IF f = "create_proposal_with_template" THEN FinancialSlide(idx, k)
               ELSE CombinedSlide] :
          f \in {"create_proposal_with_template", "create_combined_proposal_with_template"},
          k \in {KeyA, KeyB}, n \in 0..MaxSlides, idx \in 1..MaxProposals }

InitDeck ==
    /\ PipelineIdle
    /\ call \in DeckCalls
    /\ ret = NoCall
    /\ SharedIdle

DeckReturn ==
    /\ call.fn = "create_proposal_with_template"
    /\ ret = NoCall
    /\ ret' = Returns(create_proposal_with_template(call.deck, call.fin))
    /\ UNCHANGED <<pipeline, call, shared>>

CombinedDeckReturn ==
    /\ call.fn = "create_combined_proposal_with_template"
    /\ ret = NoCall
    /\ ret' = Returns(create_combined_proposal_with_template(call.deck, call.fin))
    /\ UNCHANGED <<pipeline, call, shared>>

NextDeck == DeckReturn \/ CombinedDeckReturn

SpecDeck == InitDeck /\ [][NextDeck]_vars

\* ------------------------------------------ the lookup, called on its own
\* registries of two templates, in either discovery order, whose display
\* names are absent, contain a key, or share a word
LookupNames == { <<>>, <<"T", " ", "a", "b">>, <<"x", "y", " ", "T">>, <<"a", "b">> }

LookupRegistries ==
    UNION { { <<Entry(KeyA, da, "Digital", 2, TRUE), Entry(KeyB, db, "Digital", 2, TRUE)>>,
              <<Entry(KeyB, db, "Digital", 2, TRUE), Entry(KeyA, da, "Digital", 2, TRUE)>> } :
                da \in LookupNames, db \in LookupNames }

LookupInputs ==
    { <<"a", "b">>, <<" ", "A", "b">>, <<"x", "y">>, <<"T">>, <<"Q", " ">>,
      <<"x", "y", " ", "t">> }

LookupCalls ==
    { [fn |-> f, location |-> l] :
          f \in {"get_location_key_from_display_name", "process_single_proposal"},
          l \in LookupInputs }

InitLookup ==
    /\ registry \in LookupRegistries
    /\ PipelineAtRest
    /\ call \in LookupCalls
    /\ ret = NoCall
    /\ SharedIdle

LookupReturn ==
    /\ call.fn = "get_location_key_from_display_name"
    /\ ret = NoCall
    /\ ret' = Returns(get_location_key_from_display_name(registry, call.location))
    /\ UNCHANGED <<pipeline, call, shared>>

\* the lookup of process_single_proposal on the lower-cased, stripped location
MatchKeyReturn ==
    /\ call.fn = "process_single_proposal"
    /\ ret = NoCall
    /\ ret' = Returns(MatchKey(registry, Strip(Lower(call.location))))
    /\ UNCHANGED <<pipeline, call, shared>>

NextLookup == LookupReturn \/ MatchKeyReturn

SpecLookup == InitLookup /\ [][NextLookup]_vars

\* ------------------------------------ convert_pptx_to_pdf, called on its own
\* What one external renderer does when it is run: it writes the document
\* and exits 0, exits non-zero, exceeds the timeout (subprocess.run raises),
\* or exits 0 and writes nothing.
RendererOutcomes == {"ok", "nonzero", "timeout", "no_output"}

Absent == "absent"

\* the machine: the LibreOffice paths that are discoverable, in list order;
\* unoconv, when it is on the PATH; PowerPoint and Keynote, on Darwin; and
\* whether the text renderer of the fallback works
Machine(lo, unoconv, powerpoint, keynote, fallback) ==
    [lo |-> lo, unoconv |-> unoconv, powerpoint |-> powerpoint, keynote |-> keynote,
     fallback |-> fallback]

Machines ==
    { Machine(lo, u, d[1], d[2], f) :
          lo \in UNION {[1..n -> RendererOutcomes] : n \in 0..MaxPaths},
          u \in RendererOutcomes \cup {Absent},
          d \in (RendererOutcomes \X RendererOutcomes) \cup {<<Absent, Absent>>},
          f \in BOOLEAN }

Converted(output) == [raised |-> FALSE, output |-> output]

ConversionRaised == [raised |-> TRUE, output |-> "none"]

\* LibreOffice writes next to the target; the file it wrote is looked for
\* and moved onto the target
LibreOfficeWorks(outcome) == outcome = "ok"

\* unoconv, PowerPoint and Keynote write onto the target, which
\* NamedTemporaryFile has created already: returncode == 0 and
\* os.path.exists(pdf_file.name)
TargetAccepted(outcome) == outcome \in {"ok", "no_output"}

\* what is in the target file when a renderer that exited 0 is believed
TargetOf(outcome) == IF outcome = "ok" THEN "renderer" ELSE "empty"

ConvertWith(m) ==
    IF \E i \in 1..Len(m.lo) : LibreOfficeWorks(m.lo[i]) THEN Converted("renderer")
    ELSE IF m.unoconv # Absent /\ TargetAccepted(m.unoconv)
         THEN Converted(TargetOf(m.unoconv))
    ELSE IF m.powerpoint # Absent /\ TargetAccepted(m.powerpoint)
         THEN Converted(TargetOf(m.powerpoint))
    ELSE IF m.keynote # Absent /\ TargetAccepted(m.keynote)
         THEN Converted(TargetOf(m.keynote))
    ELSE IF m.fallback THEN Converted("fallback")
    ELSE ConversionRaised

InitConvert ==
    /\ PipelineIdle
    /\ call \in {[fn |-> "convert_pptx_to_pdf", machine |-> m] : m \in Machines}
    /\ ret = NoCall
    /\ SharedIdle

ConvertReturn ==
    /\ call.fn = "convert_pptx_to_pdf"
    /\ ret = NoCall
    /\ ret' = Returns(ConvertWith(call.machine))
    /\ UNCHANGED <<pipeline, call, shared>>

NextConvert == ConvertReturn

SpecConvert == InitConvert /\ [][NextConvert]_vars

\* ---------------------------- the layout of the financial slide, on its own
\* Slide sizes are counted in points (12700 EMU), font sizes in points, row
\* heights in EMU.  Inches(20) is 1440 pt and Inches(12) is 864 pt.
reference_width == 1440

reference_height == 864

\* the sizes given to the header, the labels and values, the total and the
\* disclaimer: Pt(int(36 * scale)), Pt(int(20 * scale)), ...
FontBases == {36, 20, 28, 11}

MinOf(a, b) == IF a <= b THEN a ELSE b

\* int(base * scale) with scale = min(slide_width / Inches(20),
\* slide_height / Inches(12))
FontSize(base, slide_width, slide_height) ==
    MinOf((base * slide_width) \div reference_width,
          (base * slide_height) \div reference_height)

\* int(Inches(0.9) * scale_y): 822960 EMU * slide_height / 864 pt
row_height(slide_height) == (1905 * slide_height) \div 2

Layout(slide_width, slide_height) ==
    [row_height |-> row_height(slide_height),
     font |-> [b \in FontBases |-> FontSize(b, slide_width, slide_height)]]

\* the template sizes: 20 x 12 in, 13.333 x 7.5 in and 10 x 7.5 in
BaseSizes == {<<1440, 864>>, <<960, 540>>, <<720, 540>>}

\* two templates, the second k = num/den times the first in both directions
ScaledPairs ==
    { [fn |-> f, base |-> b, num |-> kn, den |-> kd] :
          f \in {"create_financial_proposal_slide",
                 "create_combined_financial_proposal_slide"},
          b \in BaseSizes, kn \in 1..MaxScale, kd \in 1..MaxScale }

ScaledSize(c) == <<(c.base[1] * c.num) \div c.den, (c.base[2] * c.num) \div c.den>>

InitLayout ==
    /\ PipelineIdle
    /\ call \in {c \in ScaledPairs : (c.base[1] * c.num) % c.den = 0
                                     /\ (c.base[2] * c.num) % c.den = 0}
    /\ ret = NoCall
    /\ SharedIdle

\* the same terms rendered on both templates
LayoutReturn ==
    /\ call.fn = "create_financial_proposal_slide"
    /\ ret = NoCall
    /\ ret' = Returns(<<Layout(call.base[1], call.base[2]),
                        Layout(ScaledSize(call)[1], ScaledSize(call)[2])>>)
    /\ UNCHANGED <<pipeline, call, shared>>

CombinedLayoutReturn ==
    /\ call.fn = "create_combined_financial_proposal_slide"
    /\ ret = NoCall
    /\ ret' = Returns(<<Layout(call.base[1], call.base[2]),
                        Layout(ScaledSize(call)[1], ScaledSize(call)[2])>>)
    /\ UNCHANGED <<pipeline, call, shared>>

NextLayout == LayoutReturn \/ CombinedLayoutReturn

SpecLayout == InitLayout /\ [][NextLayout]_vars

\* ------------------------------------------------- refresh_templates
\* A template file found by the scan: the file's stem, its path relative to
\* the templates directory, and the metadata.txt of its folder, if any.
NoSidecar == [exists |-> FALSE]

Sidecar(display_name, upload_fee) ==
    [exists |-> TRUE, display_name |-> display_name, upload_fee |-> upload_fee]

TemplateFile(stem, rel, sidecar) == [stem |-> stem, rel |-> rel, sidecar |-> sidecar]

FileA == TemplateFile(<<"A", "b">>, "a/Ab.pptx",
                      Sidecar(<<"T", " ", "a", "b">>, <<"5", ",", "0", "0", "0">>))
FileA_Bare == TemplateFile(<<"a", "b">>, "b/ab.pptx", NoSidecar)
FileB == TemplateFile(<<"x", "y">>, "x/xy.pptx", Sidecar(<<" ">>, <<"n", "/", "a">>))

TemplateFiles == {FileA, FileA_Bare, FileB}

\* the directories: up to MaxFiles different files, in any scan order
Directories ==
    {d \in UNION {[1..n -> TemplateFiles] : n \in 0..MaxFiles} :
        \A i, j \in 1..Len(d) : i # j => d[i] # d[j]}

_normalize_key(name) == Lower(Strip(name))

NoFee == [none |-> TRUE]

\* upload_fee of _parse_metadata_file: an int when the text is all digits
ParseFee(text) ==
    LET uf == Strip(RemoveAll(text, <<",">>))
    IN  IF Len(uf) > 0 /\ \A i \in 1..Len(uf) : IsDigit(uf[i])
        THEN [none |-> FALSE, value |-> NatOf(uf)]
        ELSE NoFee

_parse_metadata_file(file) ==
    IF ~file.sidecar.exists
    THEN [parsed |-> FALSE]
    ELSE [parsed |-> TRUE,
          display_name |-> Strip(file.sidecar.display_name),
          upload_fee |-> ParseFee(file.sidecar.upload_fee)]

\* meta.get("display_name") or pptx_path.stem
DisplayNameOf(file, meta) ==
    IF meta.parsed /\ meta.display_name # <<>> THEN meta.display_name ELSE file.stem

FeeOf(meta) ==
    IF meta.parsed /\ ~meta.upload_fee.none THEN meta.upload_fee.value
    ELSE default_upload_fee

\* d[k] = v on a dict, which keeps the position of a key it already holds
Put(d, k, v) ==
    IF \E i \in 1..Len(d) : d[i].key = k
    THEN [i \in 1..Len(d) |-> IF d[i].key = k THEN [key |-> k, value |-> v] ELSE d[i]]
    ELSE Append(d, [key |-> k, value |-> v])

\* meta["pptx_rel_path"] = rel, on the record stored under key
WithRelPath(meta, rel) ==
    IF meta.parsed
    THEN [parsed |-> TRUE, display_name |-> meta.display_name,
          upload_fee |-> meta.upload_fee, pptx_rel_path |-> rel]
    ELSE [parsed |-> FALSE, pptx_rel_path |-> rel]

ValueOf(d, k) == d[CHOOSE i \in 1..Len(d) : d[i].key = k].value

display_names_Kept == IF _DISPLAY_CACHE = Unset THEN <<>> ELSE _DISPLAY_CACHE.value

\* display_names: List[str] = []
display_names_New == <<>>

InitRefresh ==
    /\ PipelineAtRest
    /\ registry = <<>>
    /\ call = NoCall
    /\ ret = NoCall
    /\ \E dir \in Directories : RegistryStart(dir)
    /\ GateStart(<<>>)
    /\ ChatStart
    /\ UploadStart
    /\ CleanupStart({})

\* refresh_templates is called: _discover_templates makes its locals and
\* clears the fee map
DiscoverStart ==
    /\ refresh.pc = "idle"
    /\ Len(refreshed) < MaxRefreshes
    /\ refresh' = [pc |-> "clear", pos |-> 1, key_to_relpath |-> <<>>,
                   display_names |-> display_names_New]
    /\ UPLOAD_FEES_MAPPING' = <<>>
    /\ UNCHANGED <<pipeline, registry, call, ret, gateVars, chatVars, uploadVars, cleanupVars, templates_dir, LOCATION_METADATA,
                   _MAPPING_CACHE, _DISPLAY_CACHE, refreshed, observed>>

\* LOCATION_METADATA.clear()
ClearMetadata ==
    /\ refresh.pc = "clear"
    /\ LOCATION_METADATA' = <<>>
    /\ refresh' = [refresh EXCEPT !.pc = "scan"]
    /\ UNCHANGED <<pipeline, registry, call, ret, gateVars, chatVars, uploadVars, cleanupVars, templates_dir, UPLOAD_FEES_MAPPING,
                   _MAPPING_CACHE, _DISPLAY_CACHE, refreshed, observed>>

\* one file of the scan: its path and display name into the locals, its fee
\* into the fee map
ScanFile ==
    /\ refresh.pc = "scan"
    /\ refresh.pos <= Len(templates_dir)
    /\ LET file == templates_dir[refresh.pos]
           key == _normalize_key(file.stem)
           meta == _parse_metadata_file(file)
       IN  /\ refresh' = [refresh EXCEPT
                  !.pc = "meta",
                  !.key_to_relpath = Put(@, key, file.rel),
                  !.display_names = Append(@, DisplayNameOf(file, meta))]
           /\ UPLOAD_FEES_MAPPING' = Put(UPLOAD_FEES_MAPPING, key, FeeOf(meta))
    /\ UNCHANGED <<pipeline, registry, call, ret, gateVars, chatVars, uploadVars, cleanupVars, templates_dir, LOCATION_METADATA,
                   _MAPPING_CACHE, _DISPLAY_CACHE, refreshed, observed>>

\* LOCATION_METADATA[key] = meta
StoreMetadata ==
    /\ refresh.pc = "meta"
    /\ LET file == templates_dir[refresh.pos]
       IN  LOCATION_METADATA' = Put(LOCATION_METADATA, _normalize_key(file.stem),
                                    _parse_metadata_file(file))
    /\ refresh' = [refresh EXCEPT !.pc = "rel"]
    /\ UNCHANGED <<pipeline, registry, call, ret, gateVars, chatVars, uploadVars, cleanupVars, templates_dir, UPLOAD_FEES_MAPPING,
                   _MAPPING_CACHE, _DISPLAY_CACHE, refreshed, observed>>

\* LOCATION_METADATA[key]["pptx_rel_path"] = str(rel_path)
StoreRelPath ==
    /\ refresh.pc = "rel"
    /\ LET file == templates_dir[refresh.pos]
           key == _normalize_key(file.stem)
       IN  LOCATION_METADATA' =
               Put(LOCATION_METADATA, key, WithRelPath(ValueOf(LOCATION_METADATA, key), file.rel))
    /\ refresh' = [refresh EXCEPT !.pc = "scan", !.pos = @ + 1]
    /\ UNCHANGED <<pipeline, registry, call, ret, gateVars, chatVars, uploadVars, cleanupVars, templates_dir, UPLOAD_FEES_MAPPING,
                   _MAPPING_CACHE, _DISPLAY_CACHE, refreshed, observed>>

\* _discover_templates returns and refresh_templates assigns the two caches
RefreshDone ==
    /\ refresh.pc = "scan"
    /\ refresh.pos > Len(templates_dir)
    /\ _MAPPING_CACHE' = Cached(refresh.key_to_relpath)
    /\ _DISPLAY_CACHE' = Cached(refresh.display_names)
    /\ refreshed' = Append(refreshed,
           [mapping |-> Cached(refresh.key_to_relpath),
            names |-> Cached(refresh.display_names),
            fees |-> UPLOAD_FEES_MAPPING, metadata |-> LOCATION_METADATA])
    /\ refresh' = NotRefreshing
    /\ UNCHANGED <<pipeline, registry, call, ret, gateVars, chatVars, uploadVars, cleanupVars, templates_dir, UPLOAD_FEES_MAPPING,
                   LOCATION_METADATA, observed>>

\* a render on a worker thread reads config.LOCATION_METADATA and
\* config.UPLOAD_FEES_MAPPING; its request loaded the registry before
Observe ==
    /\ Len(refreshed) >= 1
    /\ ~observed.read
    /\ observed' = [read |-> TRUE, fees |-> UPLOAD_FEES_MAPPING,
                    metadata |-> LOCATION_METADATA]
    /\ UNCHANGED <<pipeline, registry, call, ret, gateVars, chatVars, uploadVars, cleanupVars, templates_dir, LOCATION_METADATA,
                   UPLOAD_FEES_MAPPING, _MAPPING_CACHE, _DISPLAY_CACHE, refresh, refreshed>>

NextRefresh ==
    \/ DiscoverStart
    \/ ClearMetadata
    \/ ScanFile
    \/ StoreMetadata
    \/ StoreRelPath
    \/ RefreshDone
    \/ Observe

SpecRefresh == InitRefresh /\ [][NextRefresh]_vars

\* ------------------------------------------------- the conversion gate
\* The places that call convert_pptx_to_pdf: the single-location branch of
\* process_single_proposal and the intro/outro conversion hand it to the
\* default executor; remove_slides_and_convert_to_pdf calls it itself, on
\* the event loop, inside `async with _CONVERT_SEMAPHORE`.
ConversionSites == {"single", "intro_outro", "trimmed"}

OnExecutor(site) == site \in {"single", "intro_outro"}

Job(site) == [site |-> site, pc |-> "requested"]

\* the conversions of the requests main_llm_loop serves at the same time
JobLists == UNION {[1..n -> {Job(site) : site \in ConversionSites}] : n \in 1..MaxJobs}

InitGate ==
    /\ PipelineAtRest
    /\ registry = <<>>
    /\ call = NoCall
    /\ ret = NoCall
    /\ RegistryStart(<<>>)
    /\ \E jobs \in JobLists : GateStart(jobs)
    /\ ChatStart
    /\ UploadStart
    /\ CleanupStart({})

\* await loop.run_in_executor(None, convert_pptx_to_pdf, ...): a worker
\* thread starts the conversion; the coroutine yields the loop
ExecutorConvert(j) ==
    /\ loop_running = 0
    /\ conversion_jobs[j].pc = "requested"
    /\ OnExecutor(conversion_jobs[j].site)
    /\ conversion_jobs' = [conversion_jobs EXCEPT ![j].pc = "converting"]
    /\ UNCHANGED <<pipeline, registry, call, ret, chatVars, uploadVars, cleanupVars, registryVars, _CONVERT_SEMAPHORE,
                   loop_running>>

\* the worker thread's conversion ends
ExecutorConverted(j) ==
    /\ conversion_jobs[j].pc = "converting"
    /\ OnExecutor(conversion_jobs[j].site)
    /\ conversion_jobs' = [conversion_jobs EXCEPT ![j].pc = "converted"]
    /\ UNCHANGED <<pipeline, registry, call, ret, chatVars, uploadVars, cleanupVars, registryVars, _CONVERT_SEMAPHORE,
                   loop_running>>

\* remove_slides_and_convert_to_pdf takes a slot and calls
\* convert_pptx_to_pdf without yielding the loop
GatedConvert(j) ==
    /\ loop_running = 0
    /\ conversion_jobs[j].pc = "requested"
    /\ ~OnExecutor(conversion_jobs[j].site)
    /\ _CONVERT_SEMAPHORE > 0
    /\ _CONVERT_SEMAPHORE' = _CONVERT_SEMAPHORE - 1
    /\ loop_running' = j
    /\ conversion_jobs' = [conversion_jobs EXCEPT ![j].pc = "converting"]
    /\ UNCHANGED <<pipeline, registry, call, ret, chatVars, uploadVars, cleanupVars, registryVars>>

\* its conversion ends; leaving the `async with` frees the slot
GatedConverted(j) ==
    /\ loop_running = j
    /\ conversion_jobs[j].pc = "converting"
    /\ _CONVERT_SEMAPHORE' = _CONVERT_SEMAPHORE + 1
    /\ loop_running' = 0
    /\ conversion_jobs' = [conversion_jobs EXCEPT ![j].pc = "converted"]
    /\ UNCHANGED <<pipeline, registry, call, ret, chatVars, uploadVars, cleanupVars, registryVars>>

NextGate ==
    \/ \E j \in 1..Len(conversion_jobs) : ExecutorConvert(j)
    \/ \E j \in 1..Len(conversion_jobs) : ExecutorConverted(j)
    \/ \E j \in 1..Len(conversion_jobs) : GatedConvert(j)
    \/ \E j \in 1..Len(conversion_jobs) : GatedConverted(j)

SpecGate == InitGate /\ [][NextGate]_vars

\* ------------------------------------- main_llm_loop, the stored history
\* history[-10:]
history_limit == 10

LastMessages(history) ==
    SubSeq(history, MaxOf(Len(history) - history_limit, 0) + 1, Len(history))

UserMessage == [role |-> "user", content |-> "user_input"]

InitHistory ==
    /\ PipelineAtRest
    /\ registry = <<>>
    /\ call = NoCall
    /\ ret = NoCall
    /\ SharedIdle

\* history = user_history.get(user_id, []); history.append(...);
\* history = history[-10:].  get returns the stored list itself, so the
\* append lands in user_history; the slice is a new list.
LoopEnter(u) ==
    /\ llm_call = NoLoop
    /\ loop_calls < MaxCalls
    /\ loop_calls' = loop_calls + 1
    /\ user_history' =
           IF user_history[u].stored
           THEN [user_history EXCEPT ![u].msgs = Append(@, UserMessage)]
           ELSE user_history
    /\ llm_call' = [user |-> u,
                    history |-> LastMessages(Append(user_history[u].msgs, UserMessage))]
    /\ UNCHANGED <<pipeline, registry, call, ret, uploadVars, cleanupVars, registryVars, gateVars>>

\* the call runs to its end: user_history[user_id] = history[-10:]
LoopStore ==
    /\ llm_call # NoLoop
    /\ user_history' = [user_history EXCEPT ![llm_call.user] =
                            [stored |-> TRUE, msgs |-> LastMessages(llm_call.history)]]
    /\ llm_call' = NoLoop
    /\ UNCHANGED <<pipeline, registry, call, ret, uploadVars, cleanupVars, registryVars, gateVars, loop_calls>>

\* the call returns early (no LLM output, no proposals, a refused combined
\* request, no admin rights, ...) or ends in the except clause
LoopLeave ==
    /\ llm_call # NoLoop
    /\ llm_call' = NoLoop
    /\ UNCHANGED <<pipeline, registry, call, ret, uploadVars, cleanupVars, registryVars, gateVars, user_history,
                   loop_calls>>

NextHistory ==
    \/ \E u \in Users : LoopEnter(u)
    \/ LoopStore
    \/ LoopLeave

SpecHistory == InitHistory /\ [][NextHistory]_vars

\* ------------------------------------------ main_llm_loop, add_location
\* the active members of the admin group of the HOS config
is_admin(slack_user_id) == slack_user_id \in Admins

\* str.replace(" ", "_")
Underscored(s) == [i \in 1..Len(s) |-> IF s[i] = " " THEN "_" ELSE s[i]]

\* args.get("location_key", "").strip().lower().replace(" ", "_")
NormalizeLocationKey(raw) == Underscored(Lower(Strip(raw)))

RequiredFields == {"location_name", "display_name", "display_type", "height", "width"}

\* the path _download_slack_file returns
Downloaded == <<"upload.pptx">>

NewSession == [open |-> TRUE, pptx_path |-> None, metadata |-> {}]

\* the arguments the LLM gives to add_location, and the files of the Slack
\* event; an argument is varied only at the stages whose code reads it
\* (metadata at "collecting", confirm at "confirm", the files at "init" and
\* "collecting")
AddLocationArgs ==
    {a \in [location_key : {<<>>, <<"T", "a", " ", "b", " ">>, <<"x", "y">>},
            metadata : {{}, {"location_name", "display_name", "display_type"},
                        {"height", "width"}},
            stage : {"init", "collecting", "confirm", "save"},
            confirm : BOOLEAN,
            files : {"none", "pptx", "other"}] :
        /\ a.stage # "collecting" => a.metadata = {}
        /\ a.stage # "confirm" => ~a.confirm
        /\ a.stage \notin {"init", "collecting"} => a.files = "none"}

InitAddLocation ==
    /\ PipelineAtRest
    /\ registry = <<>>
    /\ call = NoCall
    /\ ret = NoCall
    /\ SharedIdle

\* one add_location tool call, from the admin gate to the removal of the
\* sessions older than 30 minutes; `downloaded` is whether the download of
\* an attached presentation succeeds, `expired` the sessions that are older
\* than 30 minutes when the call ends
AddLocation(user_id, args) ==
    /\ Len(templates_written) < MaxTemplates
    /\ LET location_key == NormalizeLocationKey(args.location_key)
           session_key == <<user_id, location_key>>
           in_mapping == \E i \in 1..Len(templates_written) :
                             templates_written[i].location_key = location_key
       IN  IF ~is_admin(user_id) \/ location_key = <<>>
              \/ (in_mapping /\ args.stage = "init")
           THEN UNCHANGED uploadVars
           ELSE \E downloaded \in (IF args.files = "pptx" THEN BOOLEAN ELSE {TRUE}),
                   expired \in SUBSET {k \in SessionKeys : temp_location_uploads[k].open} :
                LET has_files == args.files # "none" /\ args.stage \in {"init", "collecting"}
                    opened == IF has_files /\ ~temp_location_uploads[session_key].open
                              THEN [temp_location_uploads EXCEPT ![session_key] = NewSession]
                              ELSE temp_location_uploads
                    download_raised == has_files /\ args.files = "pptx" /\ ~downloaded
                    uploaded == IF has_files /\ args.files = "pptx" /\ downloaded
                                THEN [opened EXCEPT ![session_key].pptx_path = Downloaded]
                                ELSE opened
                    session == uploaded[session_key]
                    swept(sessions) == [k \in SessionKeys |->
                                           IF k \in expired THEN NoSession ELSE sessions[k]]
                IN  IF download_raised
                    THEN /\ temp_location_uploads' = opened
                         /\ UNCHANGED templates_written
                    ELSE IF args.stage = "init" /\ (~session.open \/ session.pptx_path = None)
                    THEN /\ temp_location_uploads' = uploaded
                         /\ UNCHANGED templates_written
                    ELSE IF args.stage = "collecting" /\ session.open
                    THEN /\ temp_location_uploads' =
                                swept([uploaded EXCEPT ![session_key].metadata =
                                           @ \cup args.metadata])
                         /\ UNCHANGED templates_written
                    ELSE IF args.stage = "confirm" /\ args.confirm /\ session.open
                    THEN IF session.pptx_path = None
                         THEN \* shutil.move(str(None), ...) raises
                              UNCHANGED uploadVars
                         ELSE /\ templates_written' = Append(templates_written,
                                     [location_key |-> location_key, by |-> user_id,
                                      pptx_path |-> session.pptx_path,
                                      metadata |-> session.metadata])
                              /\ temp_location_uploads' =
                                     swept([uploaded EXCEPT ![session_key] = NoSession])
                    ELSE /\ temp_location_uploads' = swept(uploaded)
                         /\ UNCHANGED templates_written
    /\ UNCHANGED <<pipeline, registry, call, ret, registryVars, gateVars, chatVars, cleanupVars>>

NextAddLocation == \E u \in Users, args \in AddLocationArgs : AddLocation(u, args)

SpecAddLocation == InitAddLocation /\ [][NextAddLocation]_vars

\* -------------------------------------------------------- periodic_cleanup
\* asyncio.sleep(300)
cleanup_period == 300

\* timedelta(hours=1), and the 3600 seconds of the temporary files
stale_after == 3600

\* timedelta(minutes=10)
pending_age_limit == 600

\* the names llm.py defines at module level
llm_names == {"user_history", "temp_location_uploads", "handle_edit_task_flow",
              "_download_slack_file", "_persist_location_upload", "main_llm_loop"}

\* from llm import user_history, pending_location_additions
ImportRaises == ~({"user_history", "pending_location_additions"} \subseteq llm_names)

CleanedSuffixes == {".pptx", ".pdf", ".bin"}

TempFileNames == [name : {"deck"}, suffix : {".pptx", ".xlsx"}]

ItemCount == Cardinality(temp_dir) + Cardinality({i \in Items : last_used[i] # Never})

HistoryOf(u) == [kind |-> "history", user |-> u, location_key |-> <<>>]

SessionOf(k) == [kind |-> "session", user |-> k[1], location_key |-> k[2]]

InitCleanup ==
    /\ PipelineAtRest
    /\ registry = <<>>
    /\ call = NoCall
    /\ ret = NoCall
    /\ SharedIdle

\* a temporary file is created and left in the temporary directory
TempFileWritten(f) ==
    /\ ItemCount < MaxItems
    /\ \A t \in temp_dir : t.file # f
    /\ temp_dir' = temp_dir \cup {[file |-> f, mtime |-> clock]}
    /\ UNCHANGED <<clock, cleanup_errors, cleanup_at, last_used>>
    /\ UNCHANGED <<pipeline, registry, call, ret, registryVars, gateVars, chatVars, uploadVars>>

\* a call of main_llm_loop stores the first history of a user
HistoryStored(u) ==
    /\ ItemCount < MaxItems
    /\ ~user_history[u].stored
    /\ user_history' = [user_history EXCEPT ![u] = [stored |-> TRUE, msgs |-> <<UserMessage>>]]
    /\ last_used' = [last_used EXCEPT ![HistoryOf(u)] = clock]
    /\ UNCHANGED <<clock, temp_dir, cleanup_errors, cleanup_at, llm_call, loop_calls>>
    /\ UNCHANGED <<pipeline, registry, call, ret, registryVars, gateVars, uploadVars>>

\* an add_location call of an admin opens a session
SessionOpened(k) ==
    /\ ItemCount < MaxItems
    /\ is_admin(k[1])
    /\ ~temp_location_uploads[k].open
    /\ temp_location_uploads' = [temp_location_uploads EXCEPT ![k] = NewSession]
    /\ last_used' = [last_used EXCEPT ![SessionOf(k)] = clock]
    /\ UNCHANGED <<clock, temp_dir, cleanup_errors, cleanup_at, templates_written>>
    /\ UNCHANGED <<pipeline, registry, call, ret, registryVars, gateVars, chatVars>>

\* await asyncio.sleep(300) returns; past MaxCycles periods the cycles go on
\* and the time is no longer counted
CleanupSleep ==
    /\ cleanup_at = "sleep"
    /\ clock' = IF clock < MaxCycles * cleanup_period THEN clock + cleanup_period ELSE clock
    /\ cleanup_at' = "try"
    /\ UNCHANGED <<temp_dir, cleanup_errors, last_used>>
    /\ UNCHANGED <<pipeline, registry, call, ret, registryVars, gateVars, chatVars, uploadVars>>

\* the try block of one cycle, and its except clause
CleanupTry ==
    /\ cleanup_at = "try"
    /\ cleanup_at' = "sleep"
    /\ IF ImportRaises
       THEN /\ cleanup_errors' = IF cleanup_errors < MaxCycles THEN cleanup_errors + 1
                                  ELSE cleanup_errors
            /\ UNCHANGED <<temp_dir, user_history>>
       ELSE LET last(u) == user_history[u].msgs[Len(user_history[u].msgs)]
                expired_users ==
                    {u \in Users : /\ user_history[u].stored
                                   /\ user_history[u].msgs # <<>>
                                   /\ "timestamp" \in DOMAIN last(u)
                                   /\ last(u).timestamp < clock - stale_after}
                old == {t \in temp_dir : /\ t.file.suffix \in CleanedSuffixes
                                         /\ t.mtime < clock - stale_after}
            IN  /\ user_history' = [u \in Users |->
                                       IF u \in expired_users THEN NoHistory
                                       ELSE user_history[u]]
                /\ temp_dir' = temp_dir \ old
                /\ UNCHANGED cleanup_errors
    /\ UNCHANGED <<clock, last_used, llm_call, loop_calls>>
    /\ UNCHANGED <<pipeline, registry, call, ret, registryVars, gateVars, uploadVars>>

NextCleanup ==
    \/ \E f \in TempFileNames : TempFileWritten(f)
    \/ \E u \in Users : HistoryStored(u)
    \/ \E k \in SessionKeys : SessionOpened(k)
    \/ CleanupSleep
    \/ CleanupTry

SpecCleanup == InitCleanup /\ [][NextCleanup]_vars

\* the task is created at startup and its loop never ends
FairSpecCleanup == SpecCleanup /\ WF_vars(CleanupSleep) /\ WF_vars(CleanupTry)

\* ----------------------------------------------------- main_llm_loop, call
\* the guards of the two tool calls before process_proposals is awaited
LLMToolCall ==
    /\ pc = "llm"
    /\ LET refuse(text) ==
               /\ slack' = Append(slack, Post(text, NoErr))
               /\ pc' = "done"
       IN  IF proposals_data = <<>> THEN refuse("No proposals data provided")
           ELSE IF package_type = "combined" /\ combined_net_rate = None
                THEN refuse("Combined package requires a combined net rate")
           ELSE IF package_type = "combined" /\ N < 2
                THEN refuse("Combined package requires at least 2 locations")
           ELSE pc' = "pp" /\ UNCHANGED slack
    /\ UNCHANGED <<aside, request, tasks, completed, intro_outro_template, pdf_files, conversions, files,
                   result, log>>

\* ------------------------------------------------------- process_proposals
Locations == [i \in 1..N |-> proposals_data[i].location]

ProcessProposalsEntry ==
    /\ pc = "pp"
    /\ IF proposals_data = <<>>
       THEN /\ result' = Failure(Err("No proposals provided", None, 0, None, 0, 0))
            /\ pc' = AfterReturn
            /\ UNCHANGED <<tasks, intro_outro_template>>
       ELSE IF package_type = "combined" /\ N > 1
       THEN /\ pc' = "cv_validate"
            /\ UNCHANGED <<result, tasks, intro_outro_template>>
       ELSE /\ intro_outro_template' =
                   IF N > 1 THEN _get_digital_location_template(registry, Locations)
                   ELSE None
            /\ tasks' = [i \in 1..N |-> NewTask]
            /\ pc' = "tasks"
            /\ UNCHANGED result
    /\ UNCHANGED <<aside, request, completed, pdf_files, conversions, files, log, slack>>

\* process_single_proposal up to its first await: validation, then the render
\* is handed to the worker pool.  gather starts the coroutines in list order.
TaskStart(i) ==
    /\ pc = "tasks"
    /\ tasks[i].st = "new"
    /\ \A j \in 1..(i - 1) : tasks[j].st # "new"
    /\ LET err == ValidationError(registry, proposals_data[i], i)
       IN  /\ tasks' = [tasks EXCEPT ![i] =
                  IF err # NoErr
                  THEN [@ EXCEPT !.st = "done", !.kind = "failure", !.error = err]
                  ELSE [@ EXCEPT !.st = "render",
                                 !.key = MatchKey(registry, NormLocation(proposals_data[i]))]]
           /\ completed' = IF err # NoErr THEN Append(completed, i) ELSE completed
    /\ UNCHANGED <<aside, request, pc, intro_outro_template, pdf_files, conversions, files,
                   result, log, slack>>

\* the render returns (or raises) and the coroutine runs on: a single-location
\* batch hands the whole deck to the worker pool for conversion, a larger
\* batch trims and converts in place
TaskRendered(i) ==
    /\ pc = "tasks"
    /\ tasks[i].st = "render"
    /\ \A j \in 1..N : tasks[j].st # "new"
    /\ \E rendered \in BOOLEAN, converted \in BOOLEAN :
         LET k == tasks[i].key
             deck == create_proposal_with_template(TemplateDeck(EntryOf(registry, k)),
                                                   FinancialSlide(i, k))
             flags == TrimFlags(i, N, intro_outro_template)
         IN  IF ~rendered \/ RatesRaise(proposals_data[i])
             THEN /\ converted /\ (rendered <=> RatesRaise(proposals_data[i]))
                  /\ tasks' = [tasks EXCEPT ![i] = [@ EXCEPT !.st = "done", !.kind = "exception"]]
                  /\ UNCHANGED <<conversions, files>>
             ELSE IF is_single
             THEN /\ converted
                  /\ tasks' = [tasks EXCEPT ![i] = [@ EXCEPT !.st = "convert", !.pptx = deck]]
                  /\ conversions' = conversions \cup {Conversion("deck", i, <<FALSE, FALSE>>)}
                  /\ files' = files \cup {File("pptx", i)}
             ELSE /\ conversions' = conversions \cup {Conversion("deck", i, flags)}
                  /\ IF converted
                     THEN /\ tasks' = [tasks EXCEPT ![i] =
                                  [@ EXCEPT !.st = "done", !.kind = "success", !.pptx = deck,
                                            !.pdf = convert_pptx_to_pdf(
                                                        RemoveSlides(deck, flags[1], flags[2]))]]
                          /\ files' = files \cup {File("pptx", i), File("pdf", i)}
                     ELSE /\ tasks' = [tasks EXCEPT ![i] =
                                  [@ EXCEPT !.st = "done", !.kind = "exception", !.pptx = deck]]
                          /\ files' = files \cup {File("pptx", i), File("trimmed", i), File("pdf", i)}
    /\ completed' = IF tasks'[i].st = "done" THEN Append(completed, i) ELSE completed
    /\ UNCHANGED <<aside, request, pc, intro_outro_template, pdf_files, result, log, slack>>

\* the whole-deck conversion of a single-location batch returns (or raises)
TaskConverted(i) ==
    /\ pc = "tasks"
    /\ tasks[i].st = "convert"
    /\ \E converted \in BOOLEAN :
         /\ tasks' = [tasks EXCEPT ![i] =
                IF converted
                THEN [@ EXCEPT !.st = "done", !.kind = "success",
                               !.pdf = convert_pptx_to_pdf(tasks[i].pptx)]
                ELSE [@ EXCEPT !.st = "done", !.kind = "exception"]]
         /\ files' = files \cup {File("pdf", i)}
    /\ completed' = Append(completed, i)
    /\ UNCHANGED <<aside, request, pc, intro_outro_template, pdf_files, conversions, result, log, slack>>

\* positions of the tasks that did not succeed
Failed == {i \in 1..N : tasks[i].kind # "success"}

\* mutant of FirstFailure: the failure of the task that finished first
FirstFailure_CompletionOrder ==
    LET q == CHOOSE f \in 1..Len(completed) :
                 /\ completed[f] \in Failed
                 /\ \A g \in 1..(f - 1) : completed[g] \notin Failed
        i == completed[q]
    IN  IF tasks[i].kind = "exception" THEN Failure(ErrorProcessing(i))
        ELSE Failure(tasks[i].error)

\* the scan of gather's results in list order: the first exception or
\* failure is returned
FirstFailure ==
    LET i == CHOOSE f \in Failed : \A g \in Failed : f <= g
    IN  IF tasks[i].kind = "exception" THEN Failure(ErrorProcessing(i))
        ELSE Failure(tasks[i].error)

\* mutant of GatheredPdfs: the results are taken in completion order
GatheredPdfs_CompletionOrder == [q \in 1..N |-> tasks[completed[q]].pdf]

\* gather returns the results in the order of the coroutines, whatever order
\* they finished in, and the results are sorted by their index
GatheredPdfs == [i \in 1..N |-> tasks[i].pdf]

\* gather has every result; errors are scanned, then the results are sorted
\* by index and spread over individual_files and pdf_files
Gather ==
    /\ pc = "tasks"
    /\ \A i \in 1..N : tasks[i].st = "done"
    /\ IF Failed # {}
       THEN /\ result' = FirstFailure
            /\ pc' = AfterReturn
            /\ UNCHANGED pdf_files
       ELSE /\ pdf_files' = IF is_single THEN <<>> ELSE GatheredPdfs
            /\ pc' = IF ~is_single /\ N > 1 /\ intro_outro_template # None
                     THEN "intro" ELSE "finish"
            /\ UNCHANGED result
    /\ UNCHANGED <<aside, request, tasks, completed, intro_outro_template, conversions, files, log, slack>>

\* the first and the last slide of the intro/outro template are converted on
\* their own and put around pdf_files; a conversion that raises leaves
\* process_proposals as an exception
WithIntroOutro(list, template) ==
    <<convert_pptx_to_pdf(IntroDeck(TemplateDeck(EntryOf(registry, template))))>>
    \o list \o
    <<convert_pptx_to_pdf(OutroDeck(TemplateDeck(EntryOf(registry, template))))>>

IntroOutro ==
    /\ pc = "intro"
    /\ \E converted \in BOOLEAN :
         IF converted
         THEN /\ pdf_files' = WithIntroOutro(pdf_files, intro_outro_template)
              /\ files' = files \cup {File("intro_pdf", 0), File("outro_pdf", 0)}
              /\ pc' = "finish"
              /\ UNCHANGED result
         ELSE /\ result' = Raised("convert_pptx_to_pdf")
              /\ files' = files \cup {File("intro_pptx", 0), File("intro_pdf", 0)}
              /\ pc' = AfterReturn
              /\ UNCHANGED pdf_files
    /\ conversions' = conversions \cup {Conversion("intro", 0, <<FALSE, FALSE>>),
                                        Conversion("outro", 0, <<FALSE, FALSE>>)}
    /\ UNCHANGED <<aside, request, tasks, completed, intro_outro_template, log, slack>>

Row(type, locs) == [package_type |-> type, locations |-> locs]

TaskKeys == [i \in 1..N |-> tasks[i].key]

SingleResult ==
    [NoResult EXCEPT !.success = TRUE, !.is_single = TRUE,
                     !.keys = {"success", "is_single", "pptx_path", "pdf_path", "location",
                               "pptx_filename", "pdf_filename"},
                     !.pptx = tasks[1].pptx, !.pdf = tasks[1].pdf]

SeparateResult(merged) ==
    [NoResult EXCEPT !.success = TRUE,
                     !.keys = {"success", "is_single", "individual_files", "merged_pdf_path",
                               "locations", "merged_pdf_filename"},
                     !.pdf = merged, !.decks = [i \in 1..N |-> tasks[i].pptx]]

\* a single-location batch: the row is written, then the result is returned;
\* db.log_proposal is not guarded, so what it raises leaves process_proposals
FinishSingle ==
    /\ pc = "finish"
    /\ is_single
    /\ \E logged \in BOOLEAN :
         IF logged
         THEN /\ log' = Append(log, Row("single", TaskKeys))
              /\ result' = SingleResult
         ELSE /\ result' = Raised("db.log_proposal")
              /\ UNCHANGED log
    /\ pc' = AfterReturn
    /\ UNCHANGED <<aside, request, tasks, completed, intro_outro_template, pdf_files, conversions, files, slack>>

\* a larger batch: pdf_files are merged and unlinked, the row is written,
\* the result is returned
FinishSeparate ==
    /\ pc = "finish"
    /\ ~is_single
    /\ \E merged \in BOOLEAN, logged \in BOOLEAN :
         IF ~merged
         THEN /\ logged
              /\ result' = Raised("merge_pdfs")
              /\ files' = files \cup {File("merged", 0)}
              /\ UNCHANGED log
         ELSE /\ files' = (files \ {f \in files : f.f \in {"pdf", "intro_pdf", "outro_pdf"}})
                             \cup {File("merged", 0)}
              /\ IF logged
                 THEN /\ log' = Append(log, Row("separate", TaskKeys))
                      /\ result' = SeparateResult(merge_pdfs(pdf_files))
                 ELSE /\ result' = Raised("db.log_proposal")
                      /\ UNCHANGED log
    /\ pc' = AfterReturn
    /\ UNCHANGED <<aside, request, tasks, completed, intro_outro_template, pdf_files, conversions, slack>>

\* ------------------------------------------------ process_combined_package
ValidatedKeys == [i \in 1..N |-> MatchKey(registry, NormLocation(proposals_data[i]))]

\* the first proposal, in request order, that the validation loop rejects
CombinedError(reg, p, pos) ==
    LET location == NormLocation(p)
        matched_key == MatchKey(reg, location)
    IN  IF matched_key = None THEN UnknownLocation(location, pos)
        ELSE IF p.nd = 0 THEN NoDuration(matched_key)
        ELSE NoErr

CombinedValidate ==
    /\ pc = "cv_validate"
    /\ LET bad == {i \in 1..N : CombinedError(registry, proposals_data[i], i) # NoErr}
           first == CHOOSE i \in bad : \A j \in bad : i <= j
       IN  IF bad # {}
           THEN /\ result' = Failure(CombinedError(registry, proposals_data[first], first))
                /\ pc' = AfterReturn
                /\ UNCHANGED intro_outro_template
           ELSE /\ intro_outro_template' =
                       _get_digital_location_template(registry, ValidatedKeys)
                /\ pc' = "cv_loop"
                /\ UNCHANGED result
    /\ UNCHANGED <<aside, request, tasks, completed, pdf_files, conversions, files, log, slack>>

\* one turn of the render/convert loop, for the proposal after those already
\* converted: the combined slide is rendered into the last template only
\* (the render raises when combined_net_rate is None or does not parse), every
\* other template
\* is converted as it is
CombinedRateParses ==
    combined_net_rate # None /\ ~CombinedTotals(combined_net_rate, default_upload_fee).raised

CombinedStep ==
    /\ pc = "cv_loop"
    /\ LET idx == Len(pdf_files) + 1
           e == EntryOf(registry, ValidatedKeys[idx])
           last == idx = N
           deck == IF last
                   THEN create_combined_proposal_with_template(TemplateDeck(e), CombinedSlide)
                   ELSE TemplateDeck(e)
           flags == TrimFlags(idx, N, intro_outro_template)
       IN  IF ~e.exists
           THEN /\ result' = Failure(NotFound(e.key))
                /\ pc' = AfterReturn
                /\ UNCHANGED <<pdf_files, conversions, files>>
           ELSE \E rendered \in BOOLEAN, converted \in BOOLEAN :
                  IF last /\ ~(rendered /\ CombinedRateParses)
                  THEN /\ converted
                       /\ result' = Raised("create_combined_proposal_with_template")
                       /\ pc' = AfterReturn
                       /\ UNCHANGED <<pdf_files, conversions, files>>
                  ELSE /\ (~last => rendered)
                       /\ conversions' = conversions \cup {Conversion("deck", idx, flags)}
                       /\ IF converted
                          THEN /\ pdf_files' = Append(pdf_files, convert_pptx_to_pdf(
                                                   RemoveSlides(deck, flags[1], flags[2])))
                               /\ files' = files \cup {File("pdf", idx)}
                               /\ pc' = IF ~last THEN "cv_loop"
                                        ELSE IF intro_outro_template # None THEN "cv_intro"
                                        ELSE "cv_finish"
                               /\ UNCHANGED result
                          ELSE /\ result' = Raised("convert_pptx_to_pdf")
                               /\ files' = files \cup
                                      {File("trimmed", idx), File("pdf", idx)} \cup
                                      (IF last THEN {File("pptx", idx)} ELSE {})
                               /\ pc' = AfterReturn
                               /\ UNCHANGED pdf_files
    /\ UNCHANGED <<aside, request, tasks, completed, intro_outro_template, log, slack>>

CombinedIntroOutro ==
    /\ pc = "cv_intro"
    /\ \E converted \in BOOLEAN :
         IF converted
         THEN /\ pdf_files' = WithIntroOutro(pdf_files, intro_outro_template)
              /\ files' = files \cup {File("intro_pdf", 0), File("outro_pdf", 0)}
              /\ pc' = "cv_finish"
              /\ UNCHANGED result
         ELSE /\ result' = Raised("convert_pptx_to_pdf")
              /\ files' = files \cup {File("intro_pptx", 0), File("intro_pdf", 0)}
              /\ pc' = AfterReturn
              /\ UNCHANGED pdf_files
    /\ conversions' = conversions \cup {Conversion("intro", 0, <<FALSE, FALSE>>),
                                        Conversion("outro", 0, <<FALSE, FALSE>>)}
    /\ UNCHANGED <<aside, request, tasks, completed, intro_outro_template, log, slack>>

CombinedResult(merged) ==
    [NoResult EXCEPT !.success = TRUE, !.is_combined = TRUE,
                     !.keys = {"success", "is_combined", "pptx_path", "pdf_path",
                               "locations", "pdf_filename"},
                     !.pdf = merged]

CombinedFinish ==
    /\ pc = "cv_finish"
    /\ \E merged \in BOOLEAN, logged \in BOOLEAN :
         IF ~merged
         THEN /\ logged
              /\ result' = Raised("merge_pdfs")
              /\ files' = files \cup {File("merged", 0)}
              /\ UNCHANGED log
         ELSE /\ files' = (files \ {f \in files : f.f \in {"pdf", "intro_pdf", "outro_pdf"}})
                             \cup {File("merged", 0)}
              /\ IF logged
                 THEN /\ log' = Append(log, Row("combined", ValidatedKeys))
                      /\ result' = CombinedResult(merge_pdfs(pdf_files))
                 ELSE /\ result' = Raised("db.log_proposal")
                      /\ UNCHANGED log
    /\ pc' = AfterReturn
    /\ UNCHANGED <<aside, request, tasks, completed, intro_outro_template, pdf_files, conversions, slack>>

\* --------------------------------------------------- main_llm_loop, result
Apology == Post("Something went wrong. Please try again.", NoErr)

\* the uploads of a success result, in the order they are sent; a key the
\* result does not carry raises KeyError before anything is sent
Deliveries(res) ==
    IF res.is_combined
    THEN <<Upload("Combined Package Proposal", res.pdf)>>
    ELSE IF res.is_single
    THEN IF {"formatted_pptx_path", "formatted_pptx_filename"} \subseteq res.keys
         THEN <<Upload("PowerPoint Proposal (Formatted)", res.pptx),
                Upload("PDF Proposal", res.pdf)>>
         ELSE <<Apology>>
    ELSE [i \in 1..Len(res.decks) |-> Upload("PowerPoint Proposal", res.decks[i])]
         \o <<Upload("Combined PDF", res.pdf)>>

LLMHandleResult ==
    /\ pc = "handle"
    /\ IF result.raised
       THEN /\ slack' = Append(slack, Apology)
            /\ UNCHANGED files
       ELSE IF result.success
       THEN /\ slack' = slack \o Deliveries(result)
            /\ files' = IF Deliveries(result) = <<Apology>> THEN files
                        ELSE files \ {f \in files : f.f \in {"pptx", "pdf", "merged"}}
       ELSE /\ slack' = Append(slack, Post("Error", result.error))
            /\ UNCHANGED files
    /\ pc' = "done"
    /\ UNCHANGED <<aside, request, tasks, completed, intro_outro_template, pdf_files, conversions, result, log>>

Next ==
    \/ LLMToolCall
    \/ ProcessProposalsEntry
    \/ \E i \in 1..N : TaskStart(i)
    \/ \E i \in 1..N : TaskRendered(i)
    \/ \E i \in 1..N : TaskConverted(i)
    \/ Gather
    \/ IntroOutro
    \/ FinishSingle
    \/ FinishSeparate
    \/ CombinedValidate
    \/ CombinedStep
    \/ CombinedIntroOutro
    \/ CombinedFinish
    \/ LLMHandleResult

Spec == Init /\ [][Next]_vars

SpecRates == InitRates /\ [][Next]_vars

\* ================================================================== claims
\* process_proposals has returned a result or raised
Returned == result # NoResult

\* the batch is handled by process_combined_package
CombinedRoute == package_type = "combined" /\ N > 1

\* a financial slide render was handed to the worker pool
RenderStarted ==
    \/ \E i \in DOMAIN tasks : tasks[i].st \in {"render", "convert"}
    \/ \E i \in DOMAIN tasks : tasks[i].kind \in {"success", "exception"}
    \/ Conversion("deck", N, TrimFlags(N, N, intro_outro_template)) \in conversions
    \/ result = Raised("create_combined_proposal_with_template")

WorkStarted == RenderStarted \/ conversions # {} \/ files # {}

\* proposal i is rejected by the validation of its mode: unknown location,
\* duration/rate count mismatch (separate mode) or no duration
FailsValidation(i) ==
    IF CombinedRoute
    THEN CombinedError(registry, proposals_data[i], i) # NoErr
    ELSE ValidationError(registry, proposals_data[i], i).msg \in
             {"Unknown location", "Mismatched durations and rates", "No duration specified"}

\* C1: when some proposal of the batch fails validation, no financial slide
\* is rendered, no conversion is started and no file is produced for any
\* proposal of the batch, at any time and in either mode.
C1_NoWorkWhenInvalid ==
    (\E i \in 1..N : FailsValidation(i)) => ~WorkStarted

\* every proposal before position i was carried through without a failure
EarlierSucceeded(i) == \A j \in 1..(i - 1) : tasks[j].kind = "success"

\* C2 (as claimed): in separate mode a proposal whose duration and rate counts
\* differ makes process_proposals return a failure whose message names both
\* counts and the location concerned.
C2_MismatchAlwaysNamed ==
    (package_type = "separate" /\ Returned) =>
        \A i \in 1..N :
            proposals_data[i].nd # proposals_data[i].nr =>
                /\ ~result.success /\ ~result.raised
                /\ result.error.msg = "Mismatched durations and rates"
                /\ result.error.nd = proposals_data[i].nd
                /\ result.error.nr = proposals_data[i].nr
                /\ result.error.key # None

\* C2 (amended): in separate mode a batch holding a proposal whose duration
\* and rate counts differ never yields a success result: process_proposals
\* returns a failure.  The failure names both counts and the matched location
\* key when that proposal's location resolves and no earlier proposal of the
\* batch failed; otherwise it is the failure of the first failing proposal.
C2_MismatchRejected ==
    (package_type = "separate" /\ Returned) =>
        \A i \in 1..N :
            proposals_data[i].nd # proposals_data[i].nr =>
                /\ ~result.success /\ ~result.raised
                /\ result.error # NoErr
                /\ (EarlierSucceeded(i) /\ ValidatedKeys[i] # None) =>
                       result = Failure(Mismatched(ValidatedKeys[i], proposals_data[i].nd,
                                                   proposals_data[i].nr))

C2_Witness ==
    /\ package_type = "separate" /\ Returned
    /\ \E i \in 2..N : /\ proposals_data[i].nd # proposals_data[i].nr
                       /\ EarlierSucceeded(i)
                       /\ result.error.msg = "Mismatched durations and rates"
                       /\ result.error.nd = proposals_data[i].nd
                       /\ result.error.nr = proposals_data[i].nr

\* C3: a combined request with fewer than two locations, or without a
\* combined net rate, is rejected by process_proposals with a failure result
\* before any slide is rendered or any deck converted.
C3_CombinedRejectedEarly ==
    (package_type = "combined" /\ (N < 2 \/ combined_net_rate = None)) =>
        /\ ~WorkStarted
        /\ Returned => (~result.success /\ ~result.raised)

\* the input names a registered location: it equals a key or a display name,
\* or is in a substring relation with one (an absent display name names nothing)
Names(e, s) ==
    \/ e.key = s
    \/ s # <<>> /\ (IsSubstr(e.key, s) \/ IsSubstr(s, e.key))
    \/ /\ e.display_name # <<>>
       /\ \/ Lower(e.display_name) = s
          \/ s # <<>> /\ IsSubstr(s, Lower(e.display_name))
          \/ IsSubstr(Lower(e.display_name), s)

NamesNoLocation(reg, input) ==
    \A i \in 1..Len(reg) : ~Names(reg[i], Strip(Lower(input)))

\* proposal j, taken alone, is a valid request that was carried through
PlainlyValid(j) ==
    /\ ~NamesNoLocation(registry, proposals_data[j].location)
    /\ proposals_data[j].nd = proposals_data[j].nr
    /\ proposals_data[j].nd > 0
    /\ (j \in DOMAIN tasks => tasks[j].kind = "success")

\* C4: a proposal whose location string names no registered location makes
\* process_proposals return the failure "Unknown location '<input>' in
\* proposal <k>", whatever the registry holds.  Stated for the first proposal
\* of the batch that can fail, and accepting the input as supplied or
\* lower-cased and stripped.
C4_UnknownLocationReported ==
    Returned =>
        \A k \in 1..N :
            (NamesNoLocation(registry, proposals_data[k].location)
             /\ \A j \in 1..(k - 1) : PlainlyValid(j)) =>
                \/ result = Failure(UnknownLocation(proposals_data[k].location, k))
                \/ result = Failure(UnknownLocation(NormLocation(proposals_data[k]), k))

\* ---- what a successful separate batch must hold, computed from the request
RequestTemplate == _get_digital_location_template(registry, Locations)

ExpectedDeck(i) ==
    create_proposal_with_template(TemplateDeck(EntryOf(registry, ValidatedKeys[i])),
                                  FinancialSlide(i, ValidatedKeys[i]))

ExpectedPages(i, template) ==
    LET flags == TrimFlags(i, N, template)
    IN  convert_pptx_to_pdf(RemoveSlides(ExpectedDeck(i), flags[1], flags[2]))

RECURSIVE ConcatPages(_, _)
ConcatPages(i, template) ==
    IF i = 0 THEN <<>>
    ELSE ConcatPages(i - 1, template) \o ExpectedPages(i, template)

FlagsOf(c) == <<c.remove_first, c.remove_last>>

DeckConversions == {c \in conversions : c.what = "deck"}

MultiSeparateSuccess ==
    package_type = "separate" /\ N > 1 /\ Returned /\ result.success

\* C5: in a multi-location separate batch the merged document holds the
\* pages of the proposals in request order (intro, then the pages of proposal
\* 1, 2, ..., then outro), and the trimming flags of each deck are a function
\* of its request index and the request alone, whatever order the parallel
\* tasks completed in.  conversions only grows, so the flags of every
\* conversion made are examined once process_proposals has returned.
C5_RequestOrder ==
    (package_type = "separate" /\ N > 1 /\ Returned) =>
        LET template == RequestTemplate
        IN
        /\ \A c \in DeckConversions : FlagsOf(c) = TrimFlags(c.idx, N, template)
        /\ MultiSeparateSuccess =>
               /\ result.pdf = IntroDeck(TemplateDeck(EntryOf(registry, template)))
                               \o ConcatPages(N, template) \o
                               OutroDeck(TemplateDeck(EntryOf(registry, template)))
               /\ \A p \in 1..Len(result.pdf), q \in 1..Len(result.pdf) :
                      (p < q /\ result.pdf[p].kind = "fin" /\ result.pdf[q].kind = "fin")
                          => result.pdf[p].no < result.pdf[q].no

\* a later proposal completed before an earlier one, and both have pages in
\* the merged document
C5_Witness ==
    /\ MultiSeparateSuccess
    /\ \E p \in 1..N, q \in 1..N : p < q /\ completed[p] > completed[q]
    /\ \E p \in 1..Len(result.pdf), q \in 1..Len(result.pdf) :
           /\ result.pdf[p].kind = "fin" /\ result.pdf[q].kind = "fin"
           /\ result.pdf[p].no # result.pdf[q].no

\* C6 (as claimed): in a batch of three locations the decks are trimmed by
\* position: the first keeps its first slide and loses its last, the middle
\* one loses both, the last loses only its first.
C6_PositionalTrimming ==
    N = 3 => \A c \in DeckConversions : FlagsOf(c) = PositionalFlags(c.idx, 3)

\* C6 (amended): in a batch of three locations every deck loses both its
\* first and its last slide whenever an intro/outro template is found, which
\* is the case in every batch that succeeds; the intro and the outro of the
\* final document are then the first and the last slide of that template.
\* The rule by position applies only when no intro/outro template is found.
C6_TrimmingByTemplate ==
    N = 3 =>
        /\ \A c \in DeckConversions :
               FlagsOf(c) = IF intro_outro_template # None THEN <<TRUE, TRUE>>
                            ELSE PositionalFlags(c.idx, 3)
        /\ (Returned /\ result.success) =>
               /\ intro_outro_template # None
               /\ \A i \in 1..3 : Conversion("deck", i, <<TRUE, TRUE>>) \in conversions
               /\ {Conversion("intro", 0, <<FALSE, FALSE>>),
                   Conversion("outro", 0, <<FALSE, FALSE>>)} \subseteq conversions

C6_Witness ==
    /\ N = 3 /\ Returned /\ result.success
    /\ \A i \in 1..3 : Conversion("deck", i, <<TRUE, TRUE>>) \in conversions

\* the first slide of a location's template is its intro, the last its outro
IsIntro(page) == page.kind = "tpl" /\ page.no = 1

IsOutro(page) ==
    page.kind = "tpl" /\ page.no = EntryOf(registry, page.key).slides

\* C7: the final document of every successful multi-location batch, separate
\* or combined, has exactly one intro page, its first page, and exactly one
\* outro page, its last page; no intro or outro slide lies between them.
C7_OneIntroOneOutro ==
    (N > 1 /\ Returned /\ result.success) =>
        LET doc == result.pdf
        IN  /\ Len(doc) >= 2
            /\ IsIntro(doc[1])
            /\ IsOutro(doc[Len(doc)])
            /\ {p \in 1..Len(doc) : IsIntro(doc[p])} = {1}
            /\ {p \in 1..Len(doc) : IsOutro(doc[p])} = {Len(doc)}

\* C8: a batch of exactly one location in separate mode that passes
\* validation has its rendered deck converted whole (no slide removed), gets a
\* success result carrying the deck path and the paginated document path, and
\* one log row of package_type "single" (the render, the conversion and the
\* log write not raising).
C8_SingleKeptWhole ==
    (N = 1 /\ package_type = "separate") =>
        /\ \A c \in conversions : ~c.remove_first /\ ~c.remove_last
        /\ (Returned /\ tasks # <<>> /\ tasks[1].kind = "success" /\ ~result.raised)
               => result.success
        /\ (Returned /\ result.success) =>
               /\ {"pptx_path", "pdf_path"} \subseteq result.keys
               /\ result.pptx = ExpectedDeck(1)
               /\ result.pdf = convert_pptx_to_pdf(ExpectedDeck(1))
               /\ Conversion("deck", 1, <<FALSE, FALSE>>) \in conversions
               /\ log = <<Row("single", ValidatedKeys)>>

C8_Witness ==
    /\ N = 1 /\ package_type = "separate"
    /\ Returned /\ result.success
    /\ Len(result.pdf) = Len(result.pptx) /\ Len(result.pdf) > 1
    /\ Len(log) = 1 /\ log[1].package_type = "single"

\* C9: whenever process_proposals returned a success result, main_llm_loop
\* has, once it is done with the request, uploaded the paginated document
\* (and the deck, for a single-location separate proposal) and posted no
\* error message.
C9_SuccessDelivered ==
    (caller = "llm" /\ pc = "done" /\ result.success) =>
        /\ \E m \in 1..Len(slack) :
               slack[m].op = "files_upload_v2" /\ slack[m].pages = result.pdf
        /\ result.is_single =>
               \E m \in 1..Len(slack) :
                   slack[m].op = "files_upload_v2" /\ slack[m].pages = result.pptx
        /\ \A m \in 1..Len(slack) : slack[m].op # "chat_postMessage"

\* every deck was rendered and converted and the final document assembled
Assembled ==
    \/ is_single /\ tasks # <<>> /\ tasks[1].kind = "success"
    \/ File("merged", 0) \in files /\ result # Raised("merge_pdfs")

\* C10: when the batch was rendered and assembled, process_proposals returns
\* the success result with its deliverable paths even if db.log_proposal
\* raises; nothing is raised to the caller.
C10_LogFailureSwallowed ==
    (Returned /\ Assembled) =>
        /\ result.success
        /\ ~result.raised
        /\ \E k \in {"pdf_path", "merged_pdf_path"} : k \in result.keys

\* the render or the conversion of one location's deck failed: a task of the
\* separate path ended with an exception, or the render/convert loop of the
\* combined path raised (an intro/outro conversion leaves intro_pptx behind)
LocationStepFailed ==
    \/ \E i \in DOMAIN tasks : tasks[i].kind = "exception"
    \/ /\ CombinedRoute
       /\ result \in {Raised("create_combined_proposal_with_template"),
                      Raised("convert_pptx_to_pdf")}
       /\ File("intro_pptx", 0) \notin files

\* C11: in a multi-location batch (separate or combined), when the render or
\* the conversion of one location fails or raises, process_proposals returns
\* a failure result, no merged document is produced and no deck of another
\* location is returned.
C11_FailureCancelsBatch ==
    (N > 1 /\ Returned /\ LocationStepFailed) =>
        /\ ~result.success
        /\ ~result.raised
        /\ result.error # NoErr
        /\ File("merged", 0) \notin files
        /\ result.decks = <<>> /\ result.pdf = <<>>

\* C12: process_proposals never raises; every failure of a component step
\* reaches the caller as a result {success: False, error: <message>}.
C12_NeverRaises ==
    Returned => (~result.raised /\ (~result.success => "error" \in result.keys))

\* a deck was rendered, a conversion was made or a file was written
DeckProduced ==
    \/ \E i \in DOMAIN tasks : tasks[i].pptx # <<>>
    \/ conversions # {}
    \/ files # {}

\* the request is valid but for a net rate that is not numeric
OnlyRateWrong ==
    /\ N > 0
    /\ \A i \in 1..N :
           /\ ValidatedKeys[i] # None
           /\ EntryOf(registry, ValidatedKeys[i]).exists
           /\ proposals_data[i].nd = proposals_data[i].nr
           /\ proposals_data[i].nd > 0
    /\ IF CombinedRoute
       THEN combined_net_rate # None /\ ~ParseRate(combined_net_rate).ok
       ELSE \E i \in 1..N : \E o \in 1..proposals_data[i].nr :
                ~ParseRate(net_rates(proposals_data[i])[o]).ok

\* C13: a net rate (of a duration option, or the combined net rate) that is
\* not numeric once the currency symbol and the commas are removed makes the
\* batch fail with an error result, and no deck is rendered or converted for
\* that batch.
C13_MalformedRateRejectedFirst ==
    OnlyRateWrong =>
        /\ ~DeckProduced
        /\ Returned => (~result.success /\ ~result.raised /\ result.error # NoErr)

\* v is an integer nearest to num / den
Nearest(v, num, den) ==
    /\ 2 * (den * v - num) <= den
    /\ 2 * (num - den * v) <= den

\* the figures of one duration option: the net rate n, the fee f, and the VAT
\* and the total as printed
OptionFigures(rate, f, vat_text, total_text) ==
    LET subtotal == ParseRate(rate).value + f + 520
        vat == ParseRate(vat_text)
        total == ParseRate(total_text)
    IN  /\ vat.ok /\ total.ok
        /\ vat_text = FormatAED(vat.value) /\ total_text = FormatAED(total.value)
        /\ Nearest(vat.value, 5 * subtotal, 100)
        /\ Nearest(total.value, 105 * subtotal, 100)
        /\ total.value = subtotal + vat.value

Rate1250000 == <<"A", "E", "D", " ", "1", ",", "2", "5", "0", ",", "0", "0", "0">>

\* C14: for every duration option with a whole-unit net rate n and fee f the
\* figures printed are those of subtotal = n + f + 520: the VAT is 5% of the
\* subtotal rounded to the nearest whole unit, the total is subtotal + VAT
\* rounded to the nearest whole unit, each option on its own; n = 1,250,000
\* and f = 3000 give "AED 62,676" and "AED 1,316,196".  The combined slide
\* prints the same figures of its one rate.
C14_Figures ==
    /\ (call.fn = "_calc_vat_and_total_for_rates" /\ ret # NoCall /\ ~ret.out.raised) =>
           /\ Len(ret.out.vat_amounts) = Len(call.net_rates)
           /\ Len(ret.out.total_amounts) = Len(call.net_rates)
           /\ \A i \in 1..Len(call.net_rates) :
                  /\ OptionFigures(call.net_rates[i], call.upload_fee,
                                   ret.out.vat_amounts[i], ret.out.total_amounts[i])
                  /\ (call.net_rates[i] = Rate1250000 /\ call.upload_fee = 3000) =>
                         /\ ret.out.vat_amounts[i] = <<"A", "E", "D", " ", "6", "2", ",", "6", "7", "6">>
                         /\ ret.out.total_amounts[i] =
                                <<"A", "E", "D", " ", "1", ",", "3", "1", "6", ",", "1", "9", "6">>
                  /\ \A j \in 1..Len(call.net_rates) :
                         call.net_rates[i] = call.net_rates[j] =>
                             /\ ret.out.vat_amounts[i] = ret.out.vat_amounts[j]
                             /\ ret.out.total_amounts[i] = ret.out.total_amounts[j]
    /\ (call.fn = "create_combined_financial_proposal_slide" /\ ret # NoCall /\ ~ret.out.raised) =>
           OptionFigures(call.net_rates[1], call.upload_fee, ret.out.vat, ret.out.total)

\* two options were computed, one of them the worked example, the other a tie
C14_Witness ==
    /\ call.fn = "_calc_vat_and_total_for_rates" /\ ret # NoCall /\ ~ret.out.raised
    /\ call.upload_fee = 3000
    /\ Len(ret.out.vat_amounts) = 2
    /\ call.net_rates[1] = Rate1250000
    /\ ret.out.total_amounts[1] = <<"A", "E", "D", " ", "1", ",", "3", "1", "6", ",", "1", "9", "6">>
    /\ ParseRate(call.net_rates[2]).value % 20 = 10

DeckBuilt ==
    /\ call.fn \in {"create_proposal_with_template", "create_combined_proposal_with_template"}
    /\ ret # NoCall

\* C15: for a template deck of n >= 1 slides, both deck builders return a
\* deck of n + 1 slides whose second-to-last slide is the new financial
\* slide, the n slides of the template being all there in their order.
C15_SecondToLast ==
    (DeckBuilt /\ Len(call.deck) >= 1) =>
        LET n == Len(call.deck)
        IN  /\ Len(ret.out) = n + 1
            /\ ret.out[n] = call.fin
            /\ ret.out[n + 1] = call.deck[n]
            /\ \A i \in 1..(n - 1) : ret.out[i] = call.deck[i]
            /\ \A i \in 1..n : call.deck[i] # call.fin

\* a financial slide was put before the only slide of a one-slide template,
\* and one before the last of a longer template
C15_Witness ==
    /\ DeckBuilt
    /\ call.fn = "create_proposal_with_template"
    /\ Len(call.deck) = MaxSlides
    /\ ret.out[MaxSlides] = call.fin /\ ret.out[MaxSlides + 1].kind = "tpl"

LookedUp ==
    /\ call.fn \in {"get_location_key_from_display_name", "process_single_proposal"}
    /\ ret # NoCall

\* every template of the registry has a display name
AllNamed == \A i \in 1..Len(registry) : registry[i].display_name # <<>>

\* C16: the lookup applies exact key match, then exact display-name match,
\* then substring match; so an input equal to a key of the registry resolves
\* to that key, whatever the display names of the other locations are.
\* Stated for registries in which every template has a display name.
C16_KeyResolvesToItself ==
    (LookedUp /\ AllNamed) =>
        \A i \in 1..Len(registry) :
            call.location = registry[i].key => ret.out = registry[i].key

\* the entries the input matches by one of the rules of the lookup
Candidates(input) ==
    LET s == Strip(Lower(input))
    IN  {i \in 1..Len(registry) :
            \/ registry[i].key = s
            \/ Lower(registry[i].display_name) = s
            \/ IsSubstr(s, Lower(registry[i].display_name))
            \/ IsSubstr(Lower(registry[i].display_name), s)}

\* the entries whose key the input contains or is contained in
KeyCandidates(input) ==
    LET s == Strip(Lower(input))
    IN  {i \in 1..Len(registry) :
            IsSubstr(registry[i].key, s) \/ IsSubstr(s, registry[i].key)}

\* the input is no key and no display name, and is in a substring relation
\* with the display names of more than one template
Ambiguous(input) ==
    LET s == Strip(Lower(input))
    IN  /\ \A i \in 1..Len(registry) :
               registry[i].key # s /\ Lower(registry[i].display_name) # s
        /\ Cardinality(Candidates(input)) > 1

\* C17: an input that matches more than one registered location, or none,
\* makes the lookup report a failure: no key is returned.  Stated for
\* registries in which every template has a display name.
C17_AmbiguousOrNoneFails ==
    (LookedUp /\ AllNamed) =>
        ((Ambiguous(call.location)
          \/ Candidates(call.location) \cup KeyCandidates(call.location) = {})
             => ret.out = None)

\* ---- C18, C20: refresh_templates
\* C18: whatever a reader of the registry sees, a render on a worker thread
\* that runs while refresh_templates does included, is the registry as one
\* completed refresh left it, never a partly refreshed one.
C18_ReaderSeesCompletedRefresh ==
    observed.read =>
        \E i \in 1..Len(refreshed) :
            /\ observed.fees = refreshed[i].fees
            /\ observed.metadata = refreshed[i].metadata

\* C20: a second refresh_templates over an unchanged directory leaves the
\* key-to-path map, the list of display names, the fee map and the
\* key-to-record map as the first left them.
C20_RefreshIdempotent ==
    \A i \in 1..Len(refreshed) : i > 1 => refreshed[i] = refreshed[i - 1]

C20_Witness ==
    /\ Len(refreshed) = 2
    /\ Len(templates_dir) = 2
    /\ Len(refreshed[2].names.value) = 2
    /\ Len(refreshed[2].metadata) = 1

\* ---- C19: the conversion gate
InProgress == {j \in 1..Len(conversion_jobs) : conversion_jobs[j].pc = "converting"}

\* C19: at every moment the conversions in progress, of all the batches
\* being processed and from every place that converts, number at most
\* PDF_CONVERT_CONCURRENCY.
C19_ConversionsBounded == Cardinality(InProgress) <= PDF_CONVERT_CONCURRENCY

\* ---- C27: the proposal log
RowType ==
    IF package_type = "combined" THEN "combined"
    ELSE IF N = 1 THEN "single"
    ELSE "separate"

\* C27: a call that returns success has appended exactly one row, whose
\* package_type is "single" for a separate batch of one location, "separate"
\* for a separate batch of several and "combined" for a combined batch; a
\* call that returns failure has appended none.
C27_OneRowPerSuccess ==
    (Returned /\ ~result.raised) =>
        IF result.success
        THEN Len(log) = 1 /\ log[1].package_type = RowType
        ELSE log = <<>>

\* ---- C28: which failure a separate batch returns
\* the proposals of the gathered batch that failed validation or raised
FailedProposals == {i \in DOMAIN tasks : tasks[i].st = "done" /\ tasks[i].kind # "success"}

SmallestFailed == CHOOSE i \in FailedProposals : \A j \in FailedProposals : i <= j

\* what proposal i of the batch answered: its own failure result, or the
\* exception it raised, reported under its position
AnswerOf(i) ==
    IF tasks[i].kind = "exception" THEN ErrorProcessing(i) ELSE tasks[i].error

Occurrences(doc, page) == Cardinality({p \in 1..Len(doc) : doc[p] = page})

\* C29: the merged document of a successful multi-location separate batch
\* holds the financial slide of each location exactly once, and that of a
\* successful combined batch holds the combined financial slide exactly
\* once, templates of a single slide included.
C29_FinancialSlidesKept ==
    (N > 1 /\ Returned /\ result.success) =>
        IF CombinedRoute
        THEN Occurrences(result.pdf, CombinedSlide) = 1
        ELSE \A i \in 1..N :
                 Occurrences(result.pdf, FinancialSlide(i, tasks[i].key)) = 1

\* ---- C24: the temporary files left when the batch returns
\* the files a returned result names
NamedFiles ==
    IF ~result.success THEN {}
    ELSE IF result.is_combined THEN {File("merged", 0)}
    ELSE IF result.is_single THEN {File("pptx", 1), File("pdf", 1)}
    ELSE {File("pptx", i) : i \in 1..N} \cup {File("merged", 0)}

\* C24: when process_proposals or process_combined_package has returned a
\* result, success or failure, no temporary file of the batch is left but
\* those the success result names.
C24_OnlyDeliverablesRemain ==
    (Returned /\ ~result.raised) => files \subseteq NamedFiles

\* ---- C25: the renderers of convert_pptx_to_pdf
ConvertCalled == call.fn = "convert_pptx_to_pdf" /\ ret # NoCall

Tried(m) ==
    {m.lo[i] : i \in 1..Len(m.lo)} \cup ({m.unoconv, m.powerpoint, m.keynote} \ {Absent})

\* C25: convert_pptx_to_pdf returns a renderer's output when a discoverable
\* renderer succeeds; when none is discoverable or each one exits non-zero,
\* times out or leaves no output, it returns the output of the text
\* renderer; it raises only if that one fails.
C25_RendererThenFallback ==
    ConvertCalled =>
        LET m == call.machine
        IN  IF "ok" \in Tried(m) THEN ret.out = Converted("renderer")
            ELSE IF m.fallback THEN ret.out = Converted("fallback")
            ELSE ret.out = ConversionRaised

\* ---- C21: the layout under a uniform scale factor
LayoutsCompared ==
    /\ call.fn \in {"create_financial_proposal_slide",
                    "create_combined_financial_proposal_slide"}
    /\ ret # NoCall

\* C21: on two templates whose width and height differ by the factor
\* k = num/den, the row heights and the font sizes of the header, the labels
\* and values, the total and the disclaimer differ by exactly k.
C21_ScalesExactly ==
    LayoutsCompared =>
        LET small == ret.out[1]
            large == ret.out[2]
        IN  /\ large.row_height * call.den = small.row_height * call.num
            /\ \A b \in FontBases : large.font[b] * call.den = small.font[b] * call.num

\* ---- C22: the event loop during a conversion
\* C22: no conversion in progress holds the event loop; while one runs, the
\* loop is free to run the coroutines of other requests.
C22_LoopNeverBlocked ==
    \A j \in InProgress : loop_running # j

\* ---- C26: the stored conversation history
\* C26: between calls of main_llm_loop, whatever way the calls ended, the
\* history stored for a user holds at most 10 messages.
C26_HistoryBounded ==
    llm_call = NoLoop =>
        \A u \in Users : Len(user_history[u].msgs) <= history_limit

\* ---- C30: what the add-location flow writes
StaleFile(f) ==
    \E t \in temp_dir : /\ t.file = f
                        /\ f.suffix \in CleanedSuffixes
                        /\ t.mtime < clock - stale_after

IdleHistory(u) ==
    /\ user_history[u].stored
    /\ last_used[HistoryOf(u)] < clock - stale_after

ExpiredSession(k) ==
    /\ temp_location_uploads[k].open
    /\ last_used[SessionOf(k)] < clock - pending_age_limit

\* C23: while the cleanup task runs, every temporary .pptx/.pdf/.bin file
\* older than one hour, every history idle for more than one hour and every
\* add-location session past its age limit is eventually removed.
C23_StaleEventuallyRemoved ==
    /\ \A f \in TempFileNames : StaleFile(f) ~> ~StaleFile(f)
    /\ \A u \in Users : IdleHistory(u) ~> ~IdleHistory(u)
    /\ \A k \in SessionKeys : ExpiredSession(k) ~> ~ExpiredSession(k)

\* C30: a template and its sidecar are written only for an admin whose
\* session holds an uploaded presentation and every required metadata field.
C30_WrittenOnlyWhenComplete ==
    \A i \in 1..Len(templates_written) :
        /\ is_admin(templates_written[i].by)
        /\ templates_written[i].pptx_path # None
        /\ RequiredFields \subseteq templates_written[i].metadata

====
